---- MODULE Spec2Model ----
(***************************************************************************)
(* A model of the NEXRAD-to-Unity export scripts.                          *)
(*                                                                         *)
(*   src/data/nexrad.py          nexrad_to_unity (archive file selection,  *)
(*                               grid validation, coordinate volumes)      *)
(*   src/NEXRAD_UNITY.py         the older variant of the same class       *)
(*   src/modules/unity_files.py  save_vector_field, unity_files (.vf and   *)
(*                               meta.json export)                         *)
(*                                                                         *)
(* Times are whole seconds since 1970-01-01 00:00:00 (datetime(1970,1,1)   *)
(* is 0).  File names are sequences of one-character strings, so that the  *)
(* slices file_name[-3:] and file_name[-6:-3] and the strptime patterns    *)
(* are computed on the characters as the code computes them.               *)
(***************************************************************************)
EXTENDS Integers, Sequences, FiniteSets, TLC

VARIABLES
    \* ---- nexrad_to_unity.__find_radar_file__ ----
    radar_files,   \* the listing of the day bucket (sequence of paths)
    time,          \* self.__time__, the requested time
    find_pc,       \* "input" before the call, "returned" / "raised" after it
    find_result,   \* what the call produced
    \* ---- nexrad_to_unity: the grid ----
    grid,          \* the eight grid attributes set by lines 64-71
    grid_pc,       \* "set", then "checked" / "raised", then "gridded"
    grid_check,    \* outcome of __check_grid_inputs__: error and warnings
    volumes,       \* self.__x__, self.__y__, self.__z__ of __grid_radar__
    grid_shape,    \* the grid_shape handed to grid_from_radars
    \* ---- the nexrad_to_unity object of src/data/nexrad.py ----
    constructed,   \* an object exists (its __init__ has returned)
    radar,         \* self.__radar__
    velocity,      \* self.__velocity__
    variable,      \* self.variable
    buckets,       \* self.__buckets__
    radar_file,    \* self.__radar_file__
    f_time,        \* self.__f_time__
    radar_grid,    \* self.__radar_grid__: what the held grid was made from
    uvw,           \* self.__u__, __v__, __w__: what they were made from
    io_log,        \* the I/O operations of the last call, in order
    raised,        \* the exception the last call ended with, or "none"
    \* ---- the unity_files object of src/modules/unity_files.py ----
    unity_f,       \* the fields of the object
    file_system,   \* the files below the destination: path -> content
    opened,        \* the paths the last create_files opened, in order
    export_raised, \* the exception the last call ended with, or "none"
    runs,          \* how many times create_files has been called
    save_call,     \* the arguments of the save_vector_field call made
    create_file_call \* the nexrad_to_unity attributes create_file was called with

find_vars == <<radar_files, time, find_pc, find_result>>

grid_vars == <<grid, grid_pc, grid_check, volumes, grid_shape>>

object_vars == <<constructed, radar, velocity, variable, buckets, radar_file,
                 f_time, radar_grid, uvw, io_log, raised>>

export_vars == <<unity_f, file_system, opened, export_raised, runs, save_call,
                 create_file_call>>

vars == <<radar_files, time, find_pc, find_result,
          grid, grid_pc, grid_check, volumes, grid_shape,
          constructed, radar, velocity, variable, buckets, radar_file,
          f_time, radar_grid, uvw, io_log, raised,
          unity_f, file_system, opened, export_raised, runs, save_call,
          create_file_call>>

-----------------------------------------------------------------------------
(* Bounds of the model *)

MaxFiles == 4      \* longest bucket listing explored

MaxRuns == 2       \* create_files calls explored on one object

-----------------------------------------------------------------------------
(* Characters and strings *)

DigitChars == <<"0", "1", "2", "3", "4", "5", "6", "7", "8", "9">>

\* the value of a decimal digit character, -1 for any other character
DigitVal(c) ==
    IF \E i \in 1..10 : DigitChars[i] = c
    THEN (CHOOSE i \in 1..10 : DigitChars[i] = c) - 1
    ELSE -1

\* n written with exactly two decimal digits (the %m %d %H %M %S fields)
TwoDigits(n) == <<DigitChars[(n \div 10) + 1], DigitChars[(n % 10) + 1]>>

\* n written with exactly four decimal digits (the %Y field)
FourDigits(n) == TwoDigits(n \div 100) \o TwoDigits(n % 100)

\* Python slice s[-n:]
LastChars(s, n) ==
    IF Len(s) <= n THEN s ELSE SubSeq(s, Len(s) - n + 1, Len(s))

\* Python slice s[-6:-3]
SubEnding(s) ==
    IF Len(s) <= 3 THEN <<>>
    ELSE SubSeq(s, IF Len(s) > 6 THEN Len(s) - 5 ELSE 1, Len(s) - 3)

\* Python s.split("/")[-1]: what follows the last "/"
RECURSIVE LastComponent(_)
LastComponent(s) ==
    IF s = <<>> THEN <<>>
    ELSE IF s[Len(s)] = "/" THEN <<>>
    ELSE Append(LastComponent(SubSeq(s, 1, Len(s) - 1)), s[Len(s)])

\* The one element of a singleton set.  { F(v) : v \in {e} } evaluates e one
\* time and hands its value to F, where a LET definition is evaluated anew at
\* every use.
Once(S) == CHOOSE v \in S : TRUE

\* Python list indexing with a possibly negative 0-based index
PyIndex(list, i) == IF i < 0 THEN list[Len(list) + i + 1] ELSE list[i + 1]

-----------------------------------------------------------------------------
(* datetime *)

SecondsPerDay == 86400

\* days from 1970-01-01 to the civil date y-m-d (proleptic Gregorian)
DaysFromCivil(y, m, d) ==
    LET yy  == IF m <= 2 THEN y - 1 ELSE y
        era == yy \div 400
        yoe == yy - era * 400
        mp  == IF m > 2 THEN m - 3 ELSE m + 9
        doy == ((153 * mp + 2) \div 5) + d - 1
        doe == yoe * 365 + (yoe \div 4) - (yoe \div 100) + doy
    IN  era * 146097 + doe - 719468

IsLeap(y) == (y % 4 = 0) /\ ((y % 100 # 0) \/ (y % 400 = 0))

DaysInMonth(y, m) ==
    IF m = 2 THEN (IF IsLeap(y) THEN 29 ELSE 28)
    ELSE IF m \in {4, 6, 9, 11} THEN 30 ELSE 31

\* datetime(y, m, d, hh, mm, ss) as seconds since datetime(1970,1,1)
DateTime(y, m, d, hh, mm, ss) ==
    DaysFromCivil(y, m, d) * SecondsPerDay + hh * 3600 + mm * 60 + ss

\* timedelta.seconds: the seconds field of the normalised timedelta
\* (days, seconds), 0 <= seconds < 86400; the days are not part of it
TimedeltaSeconds(td) == td % SecondsPerDay

ParseError == -1

\* decimal value of the digit characters s, ParseError if one is no digit
RECURSIVE DecimalValue(_)
DecimalValue(s) ==
    IF s = <<>> THEN 0
    ELSE LET d    == DigitVal(s[Len(s)])
             rest == DecimalValue(SubSeq(s, 1, Len(s) - 1))
         IN  IF d = -1 \/ rest = ParseError THEN ParseError ELSE rest * 10 + d

\* datetime.strptime(file_name, f"{prefix}%Y%m%d_%H%M%S{suffix}") for the
\* fixed-width names of the archive: the time in seconds, or ParseError
\* where strptime raises ValueError
Strptime(file_name, prefix, suffix) ==
    LET p == Len(prefix)
    IN  IF Len(file_name) # p + 15 + Len(suffix) THEN ParseError
        ELSE IF SubSeq(file_name, 1, p) # prefix THEN ParseError
        ELSE IF SubSeq(file_name, p + 16, Len(file_name)) # suffix THEN ParseError
        ELSE IF file_name[p + 9] # "_" THEN ParseError
        ELSE LET y  == DecimalValue(SubSeq(file_name, p + 1, p + 4))
                 m  == DecimalValue(SubSeq(file_name, p + 5, p + 6))
                 d  == DecimalValue(SubSeq(file_name, p + 7, p + 8))
                 hh == DecimalValue(SubSeq(file_name, p + 10, p + 11))
                 mm == DecimalValue(SubSeq(file_name, p + 12, p + 13))
                 ss == DecimalValue(SubSeq(file_name, p + 14, p + 15))
             IN  IF ParseError \in {y, m, d, hh, mm, ss} THEN ParseError
                 ELSE IF y < 1 \/ m < 1 \/ m > 12 THEN ParseError
                 ELSE IF d < 1 \/ d > DaysInMonth(y, m) THEN ParseError
                 ELSE IF hh > 23 \/ mm > 59 \/ ss > 59 THEN ParseError
                 ELSE DateTime(y, m, d, hh, mm, ss)

-----------------------------------------------------------------------------
(* nexrad_to_unity.__find_radar_file__  (src/data/nexrad.py 83-172; the    *)
(* same statements are in create_file of src/NEXRAD_UNITY.py 88-162)       *)

Epoch == DateTime(1970, 1, 1, 0, 0, 0)

Unbound == -2      \* stands for a local name no statement has assigned yet

End_MDM == <<"M", "D", "M">>
End_tar == <<"t", "a", "r">>
End_gz  == <<".", "g", "z">>
End_V06 == <<"V", "0", "6">>
End_V03 == <<"V", "0", "3">>

\* the test of lines 114 and 131 (and of line 146 on the whole path)
IsSidecar(file_ending) == file_ending = End_MDM \/ file_ending = End_tar

\* variant of lines 108-130 in which an unknown ending is passed over like a
\* sidecar instead of raising
FileDate_skipsUnknown(file, site) ==
    LET file_name   == LastComponent(file)
        file_ending == LastChars(file_name, 3)
    IN  IF file_ending = End_gz
        THEN LET file_sub_ending == SubEnding(file_name)
                 suffix == IF file_sub_ending = End_V03
                           THEN <<"_">> \o End_V03 \o End_gz
                           ELSE IF file_sub_ending = End_V06
                           THEN <<"_">> \o End_V06 \o End_gz
                           ELSE End_gz
             IN  [kind |-> "date", file_date |-> Strptime(file_name, site, suffix)]
        ELSE IF file_ending = End_V06
        THEN [kind |-> "date",
              file_date |-> Strptime(file_name, site, <<"_">> \o End_V06)]
        ELSE [kind |-> "pass", file_date |-> Unbound]

\* variant of lines 108-130 that parses every .gz name with the plain pattern
FileDate_plainGz(file, site) ==
    LET file_name   == LastComponent(file)
        file_ending == LastChars(file_name, 3)
    IN  IF IsSidecar(file_ending) THEN [kind |-> "pass", file_date |-> Unbound]
        ELSE IF file_ending = End_gz
        THEN [kind |-> "date", file_date |-> Strptime(file_name, site, End_gz)]
        ELSE IF file_ending = End_V06
        THEN [kind |-> "date",
              file_date |-> Strptime(file_name, site, <<"_">> \o End_V06)]
        ELSE [kind |-> "unknown", file_date |-> Unbound]

\* lines 108-130: what one pass of the loop body makes of an entry:
\* "pass" (tar/MDM), "date" with file_date (ParseError when strptime
\* raises), or "unknown" (the raise of line 130)
FileDate(file, site) ==
    LET file_name   == LastComponent(file)
        file_ending == LastChars(file_name, 3)
    IN  IF IsSidecar(file_ending) THEN [kind |-> "pass", file_date |-> Unbound]
        ELSE IF file_ending = End_gz
        THEN LET file_sub_ending == SubEnding(file_name)
                 suffix == IF file_sub_ending = End_V03
                           THEN <<"_">> \o End_V03 \o End_gz
                           ELSE IF file_sub_ending = End_V06
                           THEN <<"_">> \o End_V06 \o End_gz
                           ELSE End_gz
             IN  [kind |-> "date", file_date |-> Strptime(file_name, site, suffix)]
        ELSE IF file_ending = End_V06
        THEN [kind |-> "date",
              file_date |-> Strptime(file_name, site, <<"_">> \o End_V06)]
        ELSE [kind |-> "unknown", file_date |-> Unbound]

\* line 138: the loop stops at the first dated entry after the requested time
StopsLoop(file_date, t) == file_date > t

\* lines 101-139: the loop from 0-based index k on, with the values past_time
\* and future_time have when the body starts.  The result holds f_index (the
\* last index visited), the two times and how the loop ended: "exhausted",
\* "break", "Exception" (line 130) or "ValueError" (strptime)
RECURSIVE ScanFiles(_, _, _, _, _, _)
ScanFiles(files, site, t, k, past, future) ==
    LET future0 == IF k = 0 THEN Epoch ELSE future
        last    == (k + 1 = Len(files))
        Body(c) ==
            IF c.kind = "unknown"
            THEN [how |-> "Exception", f_index |-> k,
                  past_time |-> past, future_time |-> future0]
            ELSE IF c.kind = "date" /\ c.file_date = ParseError
            THEN [how |-> "ValueError", f_index |-> k,
                  past_time |-> past, future_time |-> future0]
            ELSE IF c.kind = "pass"
            THEN IF last
                 THEN [how |-> "exhausted", f_index |-> k,
                       past_time |-> past, future_time |-> future0]
                 ELSE ScanFiles(files, site, t, k + 1, past, future0)
            ELSE IF StopsLoop(c.file_date, t)
            THEN [how |-> "break", f_index |-> k,
                  past_time |-> future0, future_time |-> c.file_date]
            ELSE IF last
            THEN [how |-> "exhausted", f_index |-> k,
                  past_time |-> future0, future_time |-> c.file_date]
            ELSE ScanFiles(files, site, t, k + 1, future0, c.file_date)
    IN  Once({ Body(c) : c \in {FileDate(files[k + 1], site)} })

\* variants of line 152: a tie goes to the past bound / the farther bound wins
TakesFuture_strict(dt_past, dt_future) == dt_past > dt_future

TakesFuture_reversed(dt_past, dt_future) == dt_past <= dt_future

\* line 152: the future bound is taken when it is at least as close
TakesFuture(dt_past, dt_future) == dt_past >= dt_future

\* lines 167-170: t_min = dt.seconds / 60 and the test t_min >= 15
Warns(dt) == TimedeltaSeconds(dt) >= 15 * 60

\* lines 143-147: the path taken for the past bound
PastFile(files, f_index) ==
    LET past_file == PyIndex(files, f_index - 1)
    IN  IF IsSidecar(LastChars(past_file, 3))
        THEN PyIndex(files, f_index - 2)
        ELSE past_file

Raised(what) ==
    [status |-> what, file |-> <<>>, f_time |-> Unbound, dt |-> 0,
     warned |-> FALSE, bound |-> "none"]

\* lines 141-172: the choice between the bounds, the warning and the return
SelectFile(files, t, scan) ==
    IF scan.f_index # 0
    THEN IF scan.past_time = Unbound
         THEN Raised("UnboundLocalError")        \* line 149 reads past_time
         ELSE LET dt_past   == t - scan.past_time
                  dt_future == scan.future_time - t
              IN  IF TakesFuture(dt_past, dt_future)
                  THEN [status |-> "returned",
                        file   |-> PyIndex(files, scan.f_index),
                        f_time |-> scan.future_time,
                        dt     |-> dt_future,
                        warned |-> Warns(dt_future),
                        bound  |-> "future"]
                  ELSE [status |-> "returned",
                        file   |-> PastFile(files, scan.f_index),
                        f_time |-> scan.past_time,
                        dt     |-> dt_past,
                        warned |-> Warns(dt_past),
                        bound  |-> "past"]
    ELSE [status |-> "returned",
          file   |-> PyIndex(files, scan.f_index),
          f_time |-> scan.future_time,
          dt     |-> scan.future_time - t,
          warned |-> Warns(scan.future_time - t),
          bound  |-> "first"]

\* __find_radar_file__ on the listing files, for the identifier site and the time t
FindRadarFile(files, site, t) ==
    IF files = <<>>
    THEN Raised("UnboundLocalError")             \* line 141 reads f_index
    ELSE LET Rest(scan) ==
                 IF scan.how \in {"Exception", "ValueError"}
                 THEN Raised(scan.how)
                 ELSE SelectFile(files, t, scan)
         IN  Once({ Rest(scan) : scan \in {ScanFiles(files, site, t, 0, Unbound, Unbound)} })

-----------------------------------------------------------------------------
(* The listings and requested times explored for __find_radar_file__       *)

Site == <<"K", "X", "Y", "Z">>

\* s3fs lists full keys; only the last directory of the key is kept here
BucketDir == Site \o <<"/">>

\* the key of a scan of 1999-01-01 hh:mm:ss whose name ends with suffix
ScanName(hh, mm, ss, suffix) ==
    BucketDir \o Site \o FourDigits(1999) \o TwoDigits(1) \o TwoDigits(1)
        \o <<"_">> \o TwoDigits(hh) \o TwoDigits(mm) \o TwoDigits(ss) \o suffix

Scan_000012 == ScanName(0, 0, 12, <<"_">> \o End_V06)
Scan_000512 == ScanName(0, 5, 12, <<"_">> \o End_V06)
Scan_003000 == ScanName(0, 30, 0, <<"_">> \o End_V06 \o End_gz)
Mdm_000012  == ScanName(0, 0, 12, <<"_">> \o End_V06 \o <<"_">> \o End_MDM)
TarSidecar  == BucketDir \o <<"T", "A", "R", "_", "S", "I", "D", "E", "C", "A", "R", ".">> \o End_tar
Odd_000512  == ScanName(0, 5, 12, <<"_", "V", "0", "7">>)

Gz_000700   == ScanName(0, 7, 0, End_gz)
V03_000800  == ScanName(0, 8, 0, <<"_">> \o End_V03 \o End_gz)
\* ends with V06 and lacks the "_" the V06 pattern asks for
Bad_000900  == ScanName(0, 9, 0, End_V06)

Names ==
    {Scan_000012, Scan_000512, Scan_003000, Mdm_000012, TarSidecar, Odd_000512,
     Gz_000700, V03_000800, Bad_000900}

EntryKind(file) == FileDate(file, Site).kind
EntryTime(file) == FileDate(file, Site).file_date

IsDated(file) == EntryKind(file) = "date" /\ EntryTime(file) # ParseError

\* the listings: non-empty, no key twice, the dated keys in ascending time
\* order (S3 lists keys in lexical order, which is time order for one site)
Catalogs ==
    { c \in UNION { [1..n -> Names] : n \in 1..MaxFiles } :
        /\ \A i, j \in 1..Len(c) : i < j => c[i] # c[j]
        /\ \A i, j \in 1..Len(c) :
              (i < j /\ IsDated(c[i]) /\ IsDated(c[j]))
                  => EntryTime(c[i]) < EntryTime(c[j]) }

Targets ==
    { DateTime(1999, 1, 1, 0, 0, 0),  DateTime(1999, 1, 1, 0, 0, 12),
      DateTime(1999, 1, 1, 0, 2, 42), DateTime(1999, 1, 1, 0, 3, 0),
      DateTime(1999, 1, 1, 0, 10, 0), DateTime(1999, 1, 1, 0, 50, 0),
      DateTime(1999, 1, 1, 23, 58, 0) }

-----------------------------------------------------------------------------
(* nexrad_to_unity: grid attributes, __check_grid_inputs__ (src/data/      *)
(* nexrad.py 427-465, src/NEXRAD_UNITY.py 270-308) and the coordinate      *)
(* volumes of __grid_radar__ (src/data/nexrad.py 184-216)                  *)

\* lines 64-71: resolutions are kept in metres, extents given in km are
\* stored in metres
SetGrid(horizontal_resolution, x_start, x_end, y_start, y_end, z_start, z_end, vertical_resolution) ==
    [horizontal_resolution |-> horizontal_resolution,
     x_start |-> x_start * 1000, x_end |-> x_end * 1000,
     y_start |-> y_start * 1000, y_end |-> y_end * 1000,
     z_start |-> z_start * 1000, z_end |-> z_end * 1000,
     vertical_resolution |-> vertical_resolution]

\* the defaults of the signature, line 45
DefaultGrid == SetGrid(1000, -100, 100, -100, 100, 0, 20, 500)

NoGrid == SetGrid(0, 0, 0, 0, 0, 0, 0, 0)      \* attributes not yet set

MaxRange == 230000               \* lines 443-445
MinHorizontalResolution == 250   \* line 458
MaxHorizontalResolution == 10000 \* line 461
MaxVerticalResolution == 2000    \* line 464

\* lines 442-446: the warnings on the four horizontal extents
RangeWarnings(g) ==
    LET distances == {g.x_start, g.x_end, g.y_start, g.y_end}
    IN  { "beyond range" : d \in { e \in distances : e > MaxRange } }
        \cup { "beyond -range" : d \in { e \in distances : e < 0 - MaxRange } }

\* lines 458-465: the warnings on the resolutions
ResolutionWarnings(g) ==
    (IF g.horizontal_resolution < MinHorizontalResolution THEN {"fine"} ELSE {})
    \cup (IF g.horizontal_resolution > MaxHorizontalResolution THEN {"coarse"} ELSE {})
    \cup (IF g.vertical_resolution > MaxVerticalResolution THEN {"coarse_z"} ELSE {})

\* variant of __check_grid_inputs__ that lets a zero resolution through
CheckGridInputs_zeroResolution(g) ==
    IF g.x_start > g.x_end THEN [error |-> "x", warnings |-> {}]
    ELSE IF g.y_start > g.y_end THEN [error |-> "y", warnings |-> {}]
    ELSE IF g.z_start > g.z_end THEN [error |-> "z", warnings |-> {}]
    ELSE IF g.z_start < 0 THEN [error |-> "below ground", warnings |-> {}]
    ELSE IF g.horizontal_resolution < 0
    THEN [error |-> "horizontal resolution", warnings |-> RangeWarnings(g)]
    ELSE IF g.vertical_resolution < 0
    THEN [error |-> "vertical resolution", warnings |-> RangeWarnings(g)]
    ELSE [error |-> "none",
          warnings |-> RangeWarnings(g) \cup ResolutionWarnings(g)]

\* __check_grid_inputs__: the ValueError raised ("none" when it returns) and
\* the warnings emitted up to that point
CheckGridInputs(g) ==
    IF g.x_start > g.x_end THEN [error |-> "x", warnings |-> {}]
    ELSE IF g.y_start > g.y_end THEN [error |-> "y", warnings |-> {}]
    ELSE IF g.z_start > g.z_end THEN [error |-> "z", warnings |-> {}]
    ELSE IF g.z_start < 0 THEN [error |-> "below ground", warnings |-> {}]
    ELSE IF g.horizontal_resolution <= 0
    THEN [error |-> "horizontal resolution", warnings |-> RangeWarnings(g)]
    ELSE IF g.vertical_resolution <= 0
    THEN [error |-> "vertical resolution", warnings |-> RangeWarnings(g)]
    ELSE [error |-> "none",
          warnings |-> RangeWarnings(g) \cup ResolutionWarnings(g)]

\* len(np.arange(start, stop, step)) for integers and step > 0
ArangeLen(start, stop, step) ==
    IF stop > start THEN ((stop - start) + step - 1) \div step ELSE 0

\* np.arange(start, stop, step)
Arange(start, stop, step) ==
    [i \in 1..ArangeLen(start, stop, step) |-> start + (i - 1) * step]

\* A coordinate volume of np.meshgrid is a broadcast of a 1-D sequence: it is
\* kept as its shape, the (1-based) axis along which the values vary and the
\* 1-D values; its element at <<i1, i2, i3>> is VolumeAt of that index
VolumeAt(v, idx) == v.coords[idx[v.along]]

\* variant of np.meshgrid with indexing="ij"
Meshgrid_ij(a, b, c) ==
    LET shape == <<Len(a), Len(b), Len(c)>>
    IN  <<[shape |-> shape, along |-> 1, coords |-> a],
          [shape |-> shape, along |-> 2, coords |-> b],
          [shape |-> shape, along |-> 3, coords |-> c]>>

\* np.meshgrid(a, b, c) with the default indexing="xy": the first two axes
\* are exchanged, the outputs come in the order of the arguments
Meshgrid(a, b, c) ==
    LET shape == <<Len(b), Len(a), Len(c)>>
    IN  <<[shape |-> shape, along |-> 2, coords |-> a],
          [shape |-> shape, along |-> 1, coords |-> b],
          [shape |-> shape, along |-> 3, coords |-> c]>>

\* lines 184-197 and 213: the coordinate volumes and the requested grid_shape
GridRadar(g) ==
    LET xs == Arange(g.x_start, g.x_end + g.horizontal_resolution, g.horizontal_resolution)
        ys == Arange(g.y_start, g.y_end + g.horizontal_resolution, g.horizontal_resolution)
        zs == Arange(g.z_start, g.z_end + g.vertical_resolution, g.vertical_resolution)
        x_grid_points == Len(xs)
        y_grid_points == Len(ys)
        z_grid_points == Len(zs)
        m == Meshgrid(ys, zs, xs)
    IN  [volumes    |-> [y |-> m[1], z |-> m[2], x |-> m[3]],
         grid_shape |-> <<z_grid_points, y_grid_points, x_grid_points>>]

NoVolume == [shape |-> <<0, 0, 0>>, along |-> 1, coords |-> <<>>]

NoVolumes == [x |-> NoVolume, y |-> NoVolume, z |-> NoVolume]

GridIdle ==
    /\ grid = NoGrid
    /\ grid_pc = "idle"
    /\ grid_check = [error |-> "none", warnings |-> {}]
    /\ volumes = NoVolumes
    /\ grid_shape = <<0, 0, 0>>

-----------------------------------------------------------------------------
(* The nexrad_to_unity object of src/data/nexrad.py: __init__ (21-39),     *)
(* change_radar (45-76), change_variable (78-79), __check_radar_inputs__   *)
(* (370-425), __grid_radar__ (174-219), add_velocity_vector (221-291)      *)

LowerChars == <<"k", "x", "y", "z", "q">>
UpperChars == <<"K", "X", "Y", "Z", "Q">>

\* str.upper(), on the letters of the identifiers explored
UpperChar(c) ==
    IF \E i \in 1..Len(LowerChars) : LowerChars[i] = c
    THEN UpperChars[CHOOSE i \in 1..Len(LowerChars) : LowerChars[i] = c]
    ELSE c

Upper(str) == [i \in 1..Len(str) |-> UpperChar(str[i])]

\* the civil date <<y, m, d>> of a day number (inverse of DaysFromCivil)
CivilFromDays(days) ==
    LET z   == days + 719468
        era == z \div 146097
        doe == z - era * 146097
        yoe == (doe - (doe \div 1460) + (doe \div 36524) - (doe \div 146096)) \div 365
        doy == doe - (365 * yoe + (yoe \div 4) - (yoe \div 100))
        mp  == (5 * doy + 2) \div 153
        d   == doy - ((153 * mp + 2) \div 5) + 1
        m   == IF mp < 10 THEN mp + 3 ELSE mp - 9
    IN  <<yoe + era * 400 + (IF m <= 2 THEN 1 ELSE 0), m, d>>

\* the fields %Y, %m, %d of a time
DateOf(t) == CivilFromDays(t \div SecondsPerDay)

NexradBucket ==
    <<"n", "o", "a", "a", "-", "n", "e", "x", "r", "a", "d", "-",
      "l", "e", "v", "e", "l", "2">>

\* a key below the directory path (a sequence of components); only the last
\* directory of the key is kept, as in the listings above
Key(path, name) == path[Len(path)] \o <<"/">> \o name

\* the scans the archive holds for the site on 1999-01-01
ArchiveFiles == <<Scan_000012, Mdm_000012, Scan_000512, Scan_003000>>

\* s3fs.ls(path): the archive holds one day of one site
ArchiveLs(path) ==
    IF path = <<NexradBucket>> THEN <<Key(path, FourDigits(1999))>>
    ELSE IF path = <<NexradBucket, FourDigits(1999)>> THEN <<Key(path, TwoDigits(1))>>
    ELSE IF path = <<NexradBucket, FourDigits(1999), TwoDigits(1)>>
    THEN <<Key(path, TwoDigits(1))>>
    ELSE IF path = <<NexradBucket, FourDigits(1999), TwoDigits(1), TwoDigits(1)>>
    THEN <<Key(path, Site)>>
    ELSE IF path = <<NexradBucket, FourDigits(1999), TwoDigits(1), TwoDigits(1), Site>>
    THEN ArchiveFiles
    ELSE <<>>

\* __check_list_val__ (468-484)
CheckListVal(val, check_list) ==
    \E i \in 1..Len(check_list) : LastComponent(check_list[i]) = val

NoBuckets == <<>>

\* __check_radar_inputs__ for self.__radar__ = r and self.__time__ = t: the
\* ValueError raised ("none" when it returns), the listings done, and the
\* value of self.__buckets__.  The two listings of lines 419-425 ask for a
\* path that is no bucket, fail and are passed over by the bare except.
CheckRadarInputs(r, t) ==
    LET date == DateOf(t)
        p0 == <<NexradBucket>>
        p1 == Append(p0, FourDigits(date[1]))
        p2 == Append(p1, TwoDigits(date[2]))
        p3 == Append(p2, TwoDigits(date[3]))
        p4 == Append(p3, r)
    IN  IF Len(r) # 4
        THEN [error |-> "ValueError: radar", io |-> <<>>, buckets |-> NoBuckets]
        ELSE IF ~ CheckListVal(FourDigits(date[1]), ArchiveLs(p0))
        THEN [error |-> "ValueError: year", io |-> <<"ls">>, buckets |-> NoBuckets]
        ELSE IF ~ CheckListVal(TwoDigits(date[2]), ArchiveLs(p1))
        THEN [error |-> "ValueError: month", io |-> <<"ls", "ls">>,
              buckets |-> NoBuckets]
        ELSE IF ~ CheckListVal(TwoDigits(date[3]), ArchiveLs(p2))
        THEN [error |-> "ValueError: day", io |-> <<"ls", "ls", "ls">>,
              buckets |-> NoBuckets]
        ELSE IF ~ CheckListVal(r, ArchiveLs(p3))
        THEN [error |-> "ValueError: not available",
              io |-> <<"ls", "ls", "ls", "ls">>, buckets |-> NoBuckets]
        ELSE [error |-> "none",
              io |-> <<"ls", "ls", "ls", "ls", "ls", "ls">>,
              buckets |-> <<p4>>]

\* lines 95-97: the listings of all buckets, one after the other
RECURSIVE ListBuckets(_)
ListBuckets(bs) ==
    IF bs = <<>> THEN <<>> ELSE ArchiveLs(Head(bs)) \o ListBuckets(Tail(bs))

NoFile == <<>>

NoRadarGrid ==
    [file |-> NoFile, field |-> "none", grid |-> NoGrid, grid_shape |-> <<0, 0, 0>>]

NoVectors == [file |-> NoFile, grid |-> NoGrid]

\* the attributes of an object as one record
Self ==
    [radar |-> radar, time |-> time, grid |-> grid, velocity |-> velocity,
     variable |-> variable, buckets |-> buckets, radar_file |-> radar_file,
     f_time |-> f_time, radar_grid |-> radar_grid, uvw |-> uvw,
     volumes |-> volumes]

\* the outcome of a method: the attributes, the exception and the I/O done
Outcome(self, error, io) == [self |-> self, raised |-> error, io |-> io]

\* add_velocity_vector (221-291): the volumes are rebuilt, the selected file
\* is read and gridded, the components are taken from it
AddVelocityVectorBody(self, io) ==
    IF CheckGridInputs(self.grid).error # "none"
    THEN Outcome(self, "gridding failed", io)
    ELSE Outcome([self EXCEPT !.volumes = GridRadar(self.grid).volumes,
                              !.uvw = [file |-> self.radar_file, grid |-> self.grid],
                              !.velocity = TRUE],
                 "none", Append(io, "read"))

\* __grid_radar__ (174-219) and the assignment of line 74: the volumes are
\* built, the file is read and gridded; line 217 looks the field
\* "reflectivity" up in a grid that holds only self.variable
GridRadarBody(self, io) ==
    LET built == [self EXCEPT !.volumes = GridRadar(self.grid).volumes]
        made  == [file       |-> self.radar_file,
                  field      |-> self.variable,
                  grid       |-> self.grid,
                  grid_shape |-> GridRadar(self.grid).grid_shape]
    IN  IF self.variable # "reflectivity"
        THEN Outcome(built, "KeyError", Append(io, "read"))
        ELSE Outcome([built EXCEPT !.radar_grid = made], "none", Append(io, "read"))

\* change_radar (61-76) on the attributes self, after the I/O io
ChangeRadarBody(self, io, r, t, g) ==
    LET s1 == [self EXCEPT !.radar = r, !.time = t]
        AfterGrid(gridded) ==                                  \* lines 75-76
            IF gridded.raised # "none" THEN gridded
            ELSE IF gridded.self.velocity
            THEN AddVelocityVectorBody(gridded.self, gridded.io)
            ELSE gridded
        AfterFind(s2, io2, found) ==                           \* lines 73-74
            LET io3 == io2 \o [i \in 1..Len(s2.buckets) |-> "ls"]
                s3  == [s2 EXCEPT !.radar_file = found.file, !.f_time = found.f_time]
            IN  IF found.status # "returned" THEN Outcome(s2, found.status, io3)
                ELSE Once({ AfterGrid(gridded) : gridded \in {GridRadarBody(s3, io3)} })
        AfterCheck(c) ==                                       \* lines 64-72
            LET s2  == [s1 EXCEPT !.buckets = c.buckets, !.grid = g]
                io2 == io \o c.io
            IN  IF c.error # "none" THEN Outcome(s1, c.error, io2)
                ELSE IF CheckGridInputs(g).error # "none"
                THEN Outcome(s2, "ValueError: grid", io2)
                ELSE Once({ AfterFind(s2, io2, found) :
                              found \in {FindRadarFile(ListBuckets(s2.buckets),
                                                       s2.radar, s2.time)} })
    IN  Once({ AfterCheck(c) : c \in {CheckRadarInputs(r, t)} })

\* the attributes before __init__ has assigned any
Blank ==
    [radar |-> <<>>, time |-> Epoch, grid |-> NoGrid, velocity |-> FALSE,
     variable |-> "none", buckets |-> NoBuckets, radar_file |-> NoFile,
     f_time |-> Unbound, radar_grid |-> NoRadarGrid, uvw |-> NoVectors,
     volumes |-> NoVolumes]

\* __init__ (21-39): the identifier is upper-cased and checked, then
\* change_radar is called with the identifier as the caller gave it
InitBody(r, t, g) ==
    LET s1 == [Blank EXCEPT !.radar = Upper(r), !.time = t]
        AfterCheck(c) ==
            LET s2 == [s1 EXCEPT !.buckets = c.buckets, !.variable = "reflectivity"]
            IN  IF c.error # "none" THEN Outcome(s1, c.error, c.io)
                ELSE ChangeRadarBody(s2, c.io, r, t, g)
    IN  Once({ AfterCheck(c) : c \in {CheckRadarInputs(Upper(r), t)} })

ObjectAbsent ==
    /\ constructed = FALSE
    /\ radar = Blank.radar
    /\ velocity = FALSE
    /\ variable = Blank.variable
    /\ buckets = NoBuckets
    /\ radar_file = NoFile
    /\ f_time = Unbound
    /\ radar_grid = NoRadarGrid
    /\ uvw = NoVectors
    /\ io_log = <<>>
    /\ raised = "none"

-----------------------------------------------------------------------------
(* Numbers of the exported volumes.  A sample is a rational <<n, d>> with  *)
(* d > 0 in lowest terms; <<0, 0>> is nan.  struct.pack('<f', v) rounds to *)
(* the nearest binary32 value and lays its four bytes out low byte first.  *)

RECURSIVE Gcd(_, _)
Gcd(a, b) == IF b = 0 THEN a ELSE Gcd(b, a % b)

AbsInt(n) == IF n < 0 THEN 0 - n ELSE n

NaN == <<0, 0>>

\* the rational n / d in lowest terms with a positive denominator
Rat(n, d) ==
    IF d = 0 THEN NaN
    ELSE LET g == Gcd(AbsInt(n), AbsInt(d))
             s == IF d < 0 THEN -1 ELSE 1
         IN  <<(s * n) \div g, (s * d) \div g>>

IsNaN(v) == v[2] = 0

RatAbs(v) == <<AbsInt(v[1]), v[2]>>

RatLess(v, w) == v[1] * w[2] < w[1] * v[2]

\* v / w as numpy divides float arrays: 0/0 is nan (a division of a nonzero
\* sample by zero does not occur, the divisor being the largest magnitude)
RatDiv(v, w) == IF IsNaN(v) \/ IsNaN(w) THEN NaN ELSE Rat(v[1] * w[2], v[2] * w[1])

\* the binary exponent e of a positive rational: 2^e <= p/q < 2^(e+1)
BinaryExponent(p, q) ==
    CHOOSE e \in -20..20 :
        IF e >= 0 THEN (2^e) * q <= p /\ p < (2^(e + 1)) * q
        ELSE q <= p * (2^(0 - e)) /\ p * (2^(0 - e)) < 2 * q

\* the significand of p/q at exponent e with the given number of bits,
\* rounded half to even
Significand(p, q, e, bits) ==
    LET num  == IF e <= bits - 1 THEN p * (2^(bits - 1 - e)) ELSE p
        den  == IF e <= bits - 1 THEN q ELSE q * (2^(e - bits + 1))
        m0   == num \div den
        r    == num % den
    IN  IF 2 * r > den \/ (2 * r = den /\ m0 % 2 = 1) THEN m0 + 1 ELSE m0

\* the nearest value with a significand of the given number of bits
RoundFloat(v, bits) ==
    IF IsNaN(v) \/ v[1] = 0 THEN v
    ELSE LET p == AbsInt(v[1])
             e == BinaryExponent(p, v[2])
             m == Significand(p, v[2], e, bits)
             s == IF v[1] < 0 THEN -1 ELSE 1
         IN  IF e >= bits - 1 THEN <<s * m * (2^(e - bits + 1)), 1>>
             ELSE Rat(s * m, 2^(bits - 1 - e))

\* the bytes of the binary32 word with the given sign, exponent field and
\* fraction field, low byte first ('<')
Float32Bytes(sign, expfield, fraction) ==
    <<fraction % 256,
      (fraction \div 256) % 256,
      (fraction \div 65536) + (expfield % 2) * 128,
      sign * 128 + (expfield \div 2)>>

\* struct.pack('<f', value); nan is the quiet nan, its sign bit taken as 0
PackFloat(v) ==
    IF IsNaN(v) THEN <<0, 0, 192, 127>>
    ELSE IF v[1] = 0 THEN <<0, 0, 0, 0>>
    ELSE LET p == AbsInt(v[1])
             q == v[2]
             e == BinaryExponent(p, q)
             m == Significand(p, q, e, 24)
             e1 == IF m = 2^24 THEN e + 1 ELSE e
             m1 == IF m = 2^24 THEN 2^23 ELSE m
         IN  Float32Bytes(IF v[1] < 0 THEN 1 ELSE 0, e1 + 127, m1 - 2^23)

\* the sample a reader gets from four bytes with struct.unpack('<f', b)
UnpackFloat(b) ==
    LET sign     == b[4] \div 128
        expfield == (b[4] % 128) * 2 + (b[3] \div 128)
        fraction == (b[3] % 128) * 65536 + b[2] * 256 + b[1]
        e        == expfield - 127
        m        == 2^23 + fraction
        s        == IF sign = 1 THEN -1 ELSE 1
    IN  IF expfield = 255 THEN NaN
        ELSE IF expfield = 0 /\ fraction = 0 THEN <<0, 1>>
        ELSE IF e >= 23 THEN <<s * m * (2^(e - 23)), 1>>
        ELSE Rat(s * m, 2^(23 - e))

\* struct.pack('<HHH', w, h, d): three unsigned 16-bit integers, low byte
\* first; struct.error for a value that does not fit
PackSizes(volume_size) ==
    <<volume_size[1] % 256, volume_size[1] \div 256,
      volume_size[2] % 256, volume_size[2] \div 256,
      volume_size[3] % 256, volume_size[3] \div 256>>

FourCC == <<86, 70, 95, 70>>       \* b'VF_F'

-----------------------------------------------------------------------------
(* numpy arrays: a 3-D array is its shape, its dtype and its samples in    *)
(* row-major (C) order                                                     *)

Size(shape) == shape[1] * shape[2] * shape[3]

\* the position of the 1-based index <<i, j, k>> in the row-major order
Offset(shape, i, j, k) == ((i - 1) * shape[2] + (j - 1)) * shape[3] + k

At(a, i, j, k) == a.data[Offset(a.shape, i, j, k)]

\* the index <<i, j, k>> that stands at position n of the row-major order
IndexAt(shape, n) ==
    <<((n - 1) \div (shape[2] * shape[3])) + 1,
      (((n - 1) \div shape[3]) % shape[2]) + 1,
      ((n - 1) % shape[3]) + 1>>

\* np.swapaxes(a, 1, 2): the last two axes are exchanged
SwapAxes(a) ==
    LET shape == <<a.shape[1], a.shape[3], a.shape[2]>>
    IN  [shape |-> shape,
         dtype |-> a.dtype,
         data  |-> [n \in 1..Size(shape) |->
                       LET idx == IndexAt(shape, n)
                       IN  At(a, idx[1], idx[3], idx[2])]]

\* the array of the given shape and dtype whose sample at position n of
\* the row-major order is first + (n - 1) * step
Ramp(shape, dtype, first, step) ==
    [shape |-> shape, dtype |-> dtype,
     data  |-> [n \in 1..Size(shape) |-> <<first + (n - 1) * step, 1>>]]

\* np.amax(np.absolute(field)) over a stack of arrays (a sequence of them)
AbsMax(field) ==
    LET samples == { RatAbs(field[c].data[n]) :
                        c \in 1..Len(field), n \in 1..Len(field[1].data) }
    IN  IF \E v \in samples : IsNaN(v) THEN NaN
        ELSE CHOOSE v \in samples : \A w \in samples : ~ RatLess(v, w)

\* the significand bits of the float dtypes that are narrower than the
\* rationals explored; a float64 quotient is kept exact, which changes no
\* binary32 value it is later cast to for the denominators explored
SignificandBits == [float16 |-> 11, float32 |-> 24]

\* field / maximum, sample by sample, in the dtype of the field (float64
\* for an integer field)
DivideBy(field, maximum) ==
    [c \in 1..Len(field) |->
        [field[c] EXCEPT !.data = [n \in 1..Len(field[c].data) |->
                                      IF field[c].dtype \in DOMAIN SignificandBits
                                      THEN RoundFloat(RatDiv(field[c].data[n], maximum),
                                                      SignificandBits[field[c].dtype])
                                      ELSE RatDiv(field[c].data[n], maximum)],
                         !.dtype = IF field[c].dtype \in DOMAIN SignificandBits
                                   THEN field[c].dtype ELSE "float64"]]

-----------------------------------------------------------------------------
(* modules/unity_files.py, class unity_files.  An input of the exporter is *)
(* [pint, units, magnitude]: a pint quantity, or a bare array (pint FALSE) *)
(* whose units field is not read.  A dict is a function of its keys.       *)

EmptyDict == [k \in {} |-> 0]

Put(dict, k, v) == [key \in DOMAIN dict \cup {k} |-> IF key = k THEN v ELSE dict[key]]

Quantity(units, magnitude) == [pint |-> TRUE, units |-> units, magnitude |-> magnitude]

Bare(magnitude) == [pint |-> FALSE, units |-> "", magnitude |-> magnitude]

None == [pint |-> FALSE, units |-> "None", magnitude |-> <<>>]

\* the length units of the registry the inputs use, in meters
ToMeter == [meter |-> 1, kilometer |-> 1000]

\* the magnitude multiplied by a whole factor (pint's dim.to(meter))
Scale(a, factor) ==
    [a EXCEPT !.data = [n \in 1..Len(a.data) |-> Rat(a.data[n][1] * factor, a.data[n][2])]]

\* __init__: the fields of a new unity_files object
NewUnityFiles ==
    [cartesian    |-> TRUE,
     iso_dims     |-> EmptyDict,
     iso          |-> EmptyDict,
     vector_dims  |-> EmptyDict,
     vector_normalize |-> FALSE,
     radar        |-> FALSE,
     build_iso    |-> FALSE,
     build_vector |-> FALSE,
     radar_meta   |-> None]

\* what the body of the loop of __create_dim_data__ raises for one coordinate
DimError(dim) ==
    IF Len(dim.magnitude.shape) # 3 THEN "ValueError: dimensions"
    ELSE IF ~ dim.pint THEN "AttributeError: units"
    ELSE IF dim.units # "degree" /\ dim.units \notin DOMAIN ToMeter
         THEN "DimensionalityError"
    ELSE "none"

\* one coordinate as __create_dim_data__ stores it
DimEntry(dim) ==
    IF dim.units = "degree" THEN [data |-> dim.magnitude, units |-> "degree"]
    ELSE [data |-> Scale(dim.magnitude, ToMeter[dim.units]), units |-> "meter"]

\* __create_dim_data__(x, y, z): the first coordinate in x, y, z order that
\* is refused raises; the grid kind is decided by the unit of x alone
CreateDimData(x, y, z) ==
    LET errors == <<DimError(x), DimError(y), DimError(z)>>
        bad    == { i \in 1..3 : errors[i] # "none" }
    IN  IF bad # {}
        THEN [error |-> errors[CHOOSE i \in bad : \A j \in bad : i <= j],
              cartesian |-> TRUE, dims |-> EmptyDict]
        ELSE [error |-> "none",
              cartesian |-> x.units # "degree",
              dims |-> [k \in {"x", "y", "z"} |->
                           DimEntry(IF k = "x" THEN x ELSE IF k = "y" THEN y ELSE z)]]

\* __create_var_data__(var): a quantity keeps its units, a bare array is
\* dimensionless; an array that is not 3-D raises ValueError on both paths
CreateVarData(var) ==
    IF Len(var.magnitude.shape) # 3
    THEN [error |-> "ValueError: dimensions", value |-> EmptyDict]
    ELSE [error |-> "none",
          value |-> [units |-> IF var.pint THEN var.units ELSE "dimensionless",
                     data  |-> var.magnitude]]

\* the time stored when the caller gives none: 0 * seconds
ZeroSeconds == [kind |-> "quantity", magnitude |-> 0]

StoredTime(t) == IF t = None THEN ZeroSeconds ELSE t

\* input_vector_data(x, y, z, U, V, W, time, normalize): the statements in
\* order; a raise leaves the assignments made before it in place
InputVectorDataBody(self, x, y, z, U, V, W, t, normalize) ==
    LET s1   == [self EXCEPT !.build_vector = TRUE]
        dim  == CreateDimData(x, y, z)
        s2   == [s1 EXCEPT !.cartesian = dim.cartesian, !.vector_dims = dim.dims,
                           !.vector_normalize = normalize]
        u    == CreateVarData(U)
        s3   == [s2 EXCEPT !.vector_dims = Put(@, "U", u.value)]
        v    == CreateVarData(V)
        s4   == IF V = None THEN s3 ELSE [s3 EXCEPT !.vector_dims = Put(@, "V", v.value)]
        w    == CreateVarData(W)
        s5   == IF W = None THEN s4 ELSE [s4 EXCEPT !.vector_dims = Put(@, "W", w.value)]
    IN  IF dim.error # "none" THEN [self |-> s1, error |-> dim.error]
        ELSE IF u.error # "none" THEN [self |-> s2, error |-> u.error]
        ELSE IF V # None /\ v.error # "none" THEN [self |-> s3, error |-> v.error]
        ELSE IF W # None /\ w.error # "none" THEN [self |-> s4, error |-> w.error]
        ELSE [self |-> [s5 EXCEPT !.vector_dims = Put(@, "time", StoredTime(t))],
              error |-> "none"]

\* input_isosurface_data(x, y, z, iso_surface_data, iso_surface_levels, time,
\* file_type, smooth, variable_name)
InputIsosurfaceDataBody(self, x, y, z, iso_surface_data, levels, t, file_type, smooth, variable_name) ==
    LET s1   == [self EXCEPT !.build_iso = TRUE]
        dim  == CreateDimData(x, y, z)
        s2   == [s1 EXCEPT !.cartesian = dim.cartesian, !.iso_dims = dim.dims]
        var  == CreateVarData(iso_surface_data)
        s3   == [s2 EXCEPT !.iso_dims = Put(Put(@, "var", var.value), "time", StoredTime(t)),
                           !.iso = [isosurface_levels |-> levels, smooth |-> smooth,
                                    file_type |-> file_type, var_name |-> variable_name]]
    IN  IF dim.error # "none" THEN [self |-> s1, error |-> dim.error]
        ELSE IF var.error # "none" THEN [self |-> s2, error |-> var.error]
        ELSE [self |-> s3, error |-> "none"]

-----------------------------------------------------------------------------
(* Texts of the manifest                                                   *)

RECURSIVE Join(_)
\* "".join(chars): the string of a sequence of characters
Join(chars) == IF chars = <<>> THEN "" ELSE chars[1] \o Join(Tail(chars))

RECURSIVE FractionDigits(_, _)
\* the decimal digits of r / d after the point, 0 <= r < d, for a fraction
\* that has finitely many
FractionDigits(r, d) ==
    IF r = 0 THEN "" ELSE ToString((r * 10) \div d) \o FractionDigits((r * 10) % d, d)

\* str() of a numpy float: the shortest decimal text that reads back, which
\* for the values explored is the exact decimal expansion ("5000.0", "-0.5")
StrFloat(v) ==
    IF IsNaN(v) THEN "nan"
    ELSE LET p == AbsInt(v[1])
             whole == ToString(p \div v[2])
             frac  == IF p % v[2] = 0 THEN "0" ELSE FractionDigits(p % v[2], v[2])
         IN  (IF v[1] < 0 THEN "-" ELSE "") \o whole \o "." \o frac

\* f"{time:%m/%d/%Y %H%M%S}"
FormatTime(t) ==
    LET date == DateOf(t)
        secs == t % SecondsPerDay
    IN  Join(TwoDigits(date[2]) \o <<"/">> \o TwoDigits(date[3]) \o <<"/">>
             \o FourDigits(date[1]) \o <<" ">> \o TwoDigits(secs \div 3600)
             \o TwoDigits((secs % 3600) \div 60) \o TwoDigits(secs % 60))

\* __process_time__(time): a datetime is formatted, anything else is taken
\* for a quantity and reported by its magnitude, in whatever unit it has
ProcessTime(t) ==
    IF t.kind = "datetime" THEN <<"Date", FormatTime(t.value)>>
    ELSE <<"Run_Time", ToString(t.magnitude)>>

\* str.lower() on the letters of the file types explored
LowerOf == [D |-> "d", A |-> "a", E |-> "e", O |-> "o", B |-> "b", J |-> "j"]

LowerChar(c) == IF c \in DOMAIN LowerOf THEN LowerOf[c] ELSE c

\* variant that lower-cases the file type and keeps its dots
NormalFileType_keepsDot(file_type) ==
    Join([i \in 1..Len(file_type) |-> LowerChar(file_type[i])])

\* file_type.lower().replace(".", "")
NormalFileType(file_type) ==
    Join(SelectSeq([i \in 1..Len(file_type) |-> LowerChar(file_type[i])],
                   LAMBDA c : c # "."))

\* variant that does not test whether the directory exists
CheckDirectory_anyPath(directory, directories) ==
    [error |-> "none",
     directory |-> Join(IF directory[Len(directory)] # "/"
                        THEN directory \o <<"/">> ELSE directory)]

\* ffops.check_directory(directory): a path that is not a directory raises;
\* the delimiter is appended to a path that does not end with it
CheckDirectory(directory, directories) ==
    IF (IF directory # <<>> /\ directory[Len(directory)] = "/"
        THEN SubSeq(directory, 1, Len(directory) - 1) ELSE directory) \notin directories
    THEN [error |-> "FileNotFoundError", directory |-> ""]
    ELSE [error |-> "none",
          directory |-> Join(IF directory[Len(directory)] # "/"
                             THEN directory \o <<"/">> ELSE directory)]

\* np.nanmin / np.nanmax over a set of samples; nan when none is a number
NanMin(samples) ==
    LET numbers == { v \in samples : ~ IsNaN(v) }
    IN  IF numbers = {} THEN NaN
        ELSE CHOOSE v \in numbers : \A w \in numbers : ~ RatLess(w, v)

NanMax(samples) ==
    LET numbers == { v \in samples : ~ IsNaN(v) }
    IN  IF numbers = {} THEN NaN
        ELSE CHOOSE v \in numbers : \A w \in numbers : ~ RatLess(v, w)

Samples(a) == { a.data[n] : n \in 1..Len(a.data) }

-----------------------------------------------------------------------------
(* __create_vector_files__.  The disk is a function of the paths written;  *)
(* written lists the paths in the order the run opened them.               *)

VfFile(bytes) == [kind |-> "vf", bytes |-> bytes]

\* np.stack(arrays): one array of the common shape per position; ValueError
\* when the shapes differ.  The dtype is the promoted dtype of the inputs.
SameShape(arrays) == \A c \in 1..Len(arrays) : arrays[c].shape = arrays[1].shape

FloatRank == [float16 |-> 1, float32 |-> 2, float64 |-> 3]

\* np.result_type of the dtypes: the widest float, float64 for an integer
\* array next to a float array wider than 16 bits or next to nothing wider
Promote(dtypes) ==
    IF dtypes \subseteq {"int64"} THEN "int64"
    ELSE IF "int64" \in dtypes THEN "float64"
    ELSE CHOOSE t \in dtypes : \A u \in dtypes : FloatRank[u] <= FloatRank[t]

Stack(arrays) ==
    LET dtype == Promote({ arrays[c].dtype : c \in 1..Len(arrays) })
    IN  [c \in 1..Len(arrays) |-> [arrays[c] EXCEPT !.dtype = dtype]]

\* variant that divides every component by its own largest magnitude
Normalize_perComponent(field) ==
    [c \in 1..Len(field) |-> DivideBy(<<field[c]>>, AbsMax(<<field[c]>>))[1]]

\* vector_field / np.amax(np.absolute(vector_field))
Normalize(field) == DivideBy(field, AbsMax(field))

\* variant of the loop nest with x outermost and z innermost
LoopOrder_xOutermost(depth, height, width) ==
    [n \in 1..(depth * height * width) |->
        <<((n - 1) % depth) + 1,
          (((n - 1) \div depth) % height) + 1,
          ((n - 1) \div (depth * height)) + 1>>]

\* for z in range(depth): for y in range(height): for x in range(width):
\* the indices <<z, y, x>> in the order the loop nest visits them
LoopOrder(depth, height, width) ==
    [n \in 1..(depth * height * width) |->
        <<((n - 1) \div (height * width)) + 1,
          (((n - 1) \div width) % height) + 1,
          ((n - 1) % width) + 1>>]

\* the bytes of a sequence of 4-byte words, one after the other
Concat4(words) == [b \in 1..(4 * Len(words)) |-> words[((b - 1) \div 4) + 1][((b - 1) % 4) + 1]]

\* i, depth, height, width = vector_field.shape
\* volume_size = (width, height, depth)
VolumeSize(shape) == <<shape[3], shape[2], shape[1]>>

\* the bytes written for one component of the stack: FourCC, the packed
\* volume size, then the samples in loop order
VfBytes(component) ==
    LET depth  == component.shape[1]
        height == component.shape[2]
        width  == component.shape[3]
        order  == LoopOrder(depth, height, width)
    IN  Once({ FourCC \o PackSizes(VolumeSize(component.shape)) \o Concat4(words) :
               words \in {[n \in 1..Len(order) |->
                             PackFloat(At(component, order[n][1], order[n][2], order[n][3]))]} })

\* the min, max and unit entries of the three coordinates (lines 558-561)
DimsMeta(x, y, z, x_unit, y_unit, z_unit) ==
    [x_min |-> StrFloat(NanMin(Samples(x))), x_max |-> StrFloat(NanMax(Samples(x))),
     x_coordinate_units |-> x_unit,
     y_min |-> StrFloat(NanMin(Samples(y))), y_max |-> StrFloat(NanMax(Samples(y))),
     y_coordinate_units |-> y_unit,
     z_min |-> StrFloat(NanMin(Samples(z))), z_max |-> StrFloat(NanMax(Samples(z))),
     z_coordinate_units |-> z_unit]

\* the tuple given to np.stack (lines 532-542); V and W are the locals of
\* the method, V read from the "W" entry and W from the "V" entry
StackOrder(U, V, W, y_exist, z_exist) ==
    IF y_exist /\ z_exist THEN <<W, V, U>>
    ELSE IF y_exist THEN <<V, U>>
    ELSE IF z_exist THEN <<W, U>>
    ELSE <<U>>

\* variant that appends "y" for the "V" entry and "z" for the "W" entry
VectorDimToProcess_byName(y_exist, z_exist) ==
    <<"x">> \o (IF z_exist THEN <<"y">> ELSE <<>>) \o (IF y_exist THEN <<"z">> ELSE <<>>)

\* vector_dim_to_process (lines 492-513): "x" always, "y" when the "W"
\* entry exists, "z" when the "V" entry exists
VectorDimToProcess(y_exist, z_exist) ==
    <<"x">> \o (IF y_exist THEN <<"y">> ELSE <<>>) \o (IF z_exist THEN <<"z">> ELSE <<>>)

\* __create_vector_files__(file_location) on the disk given
CreateVectorFiles(self, file_location, disk) ==
    LET vd      == self.vector_dims
        failed(e) == [error |-> e, meta |-> EmptyDict, disk |-> disk, written |-> <<>>]
    IN  IF "time" \notin DOMAIN vd THEN failed("KeyError: time")
        ELSE IF "U" \notin DOMAIN vd THEN failed("KeyError: U")
        ELSE
        LET tm      == ProcessTime(vd["time"])
            U       == SwapAxes(vd["U"].data)
            y_exist == "W" \in DOMAIN vd
            z_exist == "V" \in DOMAIN vd
            V       == SwapAxes(vd["W"].data)
            W       == SwapAxes(vd["V"].data)
            dim_units == [x |-> vd["U"].units,
                          y |-> IF y_exist THEN vd["W"].units ELSE "",
                          z |-> IF z_exist THEN vd["V"].units ELSE ""]
            vector_dim_to_process == VectorDimToProcess(y_exist, z_exist)
            arrays  == StackOrder(U, V, W, y_exist, z_exist)
            last    == vector_dim_to_process[Len(vector_dim_to_process)]
        IN  IF ~ SameShape(arrays) THEN failed("ValueError: stack")
            ELSE
            LET vector_field == Once({ IF self.vector_normalize THEN Normalize(f) ELSE f :
                                       f \in {Stack(arrays)} })
                \* every file entry is the one dims dict, so each shows
                \* the units assigned last
                dims == Once({ [k \in DOMAIN d \cup {"vector_units"} |->
                                  IF k = "vector_units" THEN dim_units[last] ELSE d[k]] :
                               d \in {DimsMeta(SwapAxes(vd["x"].data), SwapAxes(vd["z"].data),
                                               SwapAxes(vd["y"].data), vd["x"].units,
                                               vd["z"].units, vd["y"].units)} })
                names == [i \in 1..Len(vector_dim_to_process) |->
                             vector_dim_to_process[i] \o "_vector.vf"]
                head  == [k \in {tm[1], "grid", "unity_dims"} |->
                             IF k = tm[1] THEN tm[2]
                             ELSE IF k = "grid"
                                  THEN (IF self.cartesian THEN "cartesian" ELSE "latlon")
                             ELSE TRUE]
            IN  [error   |-> "none",
                 meta    |-> [k \in DOMAIN head \cup { names[i] : i \in DOMAIN names } |->
                                 IF k \in DOMAIN head THEN head[k] ELSE dims],
                 disk    |-> [path \in DOMAIN disk \cup { file_location \o names[i] : i \in DOMAIN names } |->
                                 IF \E i \in DOMAIN names : path = file_location \o names[i]
                                 THEN VfFile(VfBytes(vector_field[
                                          CHOOSE i \in DOMAIN names : path = file_location \o names[i]]))
                                 ELSE disk[path]],
                 written |-> [i \in DOMAIN names |-> file_location \o names[i]]]

-----------------------------------------------------------------------------
(* __create_isosurface_files__ and create_files                            *)

\* mcubes.smooth(data) is outside the repository: its result is an array of
\* the shape of data; the results explored are data lowered by one half and
\* data with every sample zero
McSmooth(data) ==
    { [data EXCEPT !.data = [n \in 1..Len(data.data) |->
                                Rat(2 * data.data[n][1] - data.data[n][2], 2 * data.data[n][2])]],
      [data EXCEPT !.data = [n \in 1..Len(data.data) |-> <<0, 1>>]] }

\* the file mcubes.export_mesh / export_obj writes for the surface that
\* marching_cubes finds in data at the level
MeshFile(file_type, data, level) == [kind |-> file_type, data |-> data, level |-> level]

\* variant that takes the voxels where iso_data > level
Masked_strict(coord, iso_data, level) ==
    { coord.data[n] : n \in { m \in 1..Len(iso_data.data) :
                                 /\ ~ IsNaN(iso_data.data[m])
                                 /\ RatLess(<<level, 1>>, iso_data.data[m]) } }

\* the samples of a coordinate array at the voxels where iso_data >= level
Masked(coord, iso_data, level) ==
    { coord.data[n] : n \in { m \in 1..Len(iso_data.data) :
                                 /\ ~ IsNaN(iso_data.data[m])
                                 /\ ~ RatLess(iso_data.data[m], <<level, 1>>) } }

\* the text of the min or max of the masked samples, N/A when there is none
EdgeText(bound) == IF IsNaN(bound) THEN "N/A" ELSE StrFloat(bound)

\* __get_iso_edges__ followed by the three entries lines 460-465 add
IsoEntry(x, y, z, x_unit, y_unit, z_unit, iso_data, level, units, variable_name) ==
    [x_min |-> EdgeText(NanMin(Masked(x, iso_data, level))),
     x_max |-> EdgeText(NanMax(Masked(x, iso_data, level))),
     x_cooridnate_units |-> x_unit,
     y_min |-> EdgeText(NanMin(Masked(y, iso_data, level))),
     y_max |-> EdgeText(NanMax(Masked(y, iso_data, level))),
     y_cooridnate_units |-> y_unit,
     z_min |-> EdgeText(NanMin(Masked(z, iso_data, level))),
     z_max |-> EdgeText(NanMax(Masked(z, iso_data, level))),
     z_cooridnate_units |-> z_unit,
     isosurface_units |-> units,
     isosurface_level |-> ToString(level),
     variable |-> IF variable_name # "NVNP" THEN variable_name ELSE "No Variable Provided"]

RECURSIVE IsoLoop(_, _, _, _)
\* the loop over the levels from position k on: the mesh is written, then
\* its entry is added; acc is [error, meta, disk, written]
IsoLoop(ctx, levels, k, acc) ==
    IF k > Len(levels) THEN acc
    ELSE IF ctx.file_type \notin {"dae", "obj"}
         THEN [acc EXCEPT !.error = "ValueError: file type"]
    ELSE LET name == ToString(levels[k]) \o "_" \o ctx.variable_name \o "." \o ctx.file_type
             path == ctx.file_location \o name
             wrote == [acc EXCEPT !.disk = Put(@, path, MeshFile(ctx.file_type, ctx.data, levels[k])),
                                  !.written = Append(@, path)]
         IN  IF ctx.x.shape # ctx.data.shape \/ ctx.y.shape # ctx.data.shape
                \/ ctx.z.shape # ctx.data.shape
             THEN [wrote EXCEPT !.error = "IndexError: mask"]
             ELSE IsoLoop(ctx, levels, k + 1,
                     [wrote EXCEPT !.meta = Put(@, name,
                          IsoEntry(ctx.x, ctx.y, ctx.z, ctx.x_unit, ctx.y_unit, ctx.z_unit,
                                   ctx.data, levels[k], ctx.units, ctx.variable_name))])

\* variant that keeps the list without its last level
LevelList_dropsLast(levels) ==
    [scalar |-> FALSE, values |-> SubSeq(levels.values, 1, Len(levels.values) - 1)]

\* the levels as the loop reads them: a scalar is put into a list, and the
\* list is kept on the object (line 401)
LevelList(levels) == IF levels.scalar THEN [scalar |-> FALSE, values |-> levels.values] ELSE levels

\* __create_isosurface_files__(file_location); smoothed is the array that
\* mcubes.smooth gives for the transposed data
CreateIsosurfaceFiles(self, file_location, disk, smoothed) ==
    LET dims == self.iso_dims
        failed(e) == [error |-> e, meta |-> EmptyDict, disk |-> disk, written |-> <<>>]
    IN  IF self.iso = EmptyDict THEN failed("AttributeError")
        ELSE IF "var" \notin DOMAIN dims THEN failed("KeyError: var")
        ELSE
        LET tm   == ProcessTime(dims["time"])
            ctx  == [file_location |-> file_location,
                     file_type |-> NormalFileType(self.iso.file_type),
                     data   |-> IF self.iso.smooth THEN smoothed ELSE SwapAxes(dims["var"].data),
                     x      |-> SwapAxes(dims["x"].data),
                     y      |-> SwapAxes(dims["z"].data),
                     z      |-> SwapAxes(dims["y"].data),
                     x_unit |-> dims["x"].units,
                     y_unit |-> dims["z"].units,
                     z_unit |-> dims["y"].units,
                     units  |-> dims["var"].units,
                     variable_name |-> IF self.iso.var_name # <<>>
                                       THEN self.iso.var_name[1] ELSE "NVNP"]
            head == [k \in {"grid", "unity_dims", "smooth", tm[1]} |->
                        IF k = "grid" THEN (IF self.cartesian THEN "cartesian" ELSE "latlon")
                        ELSE IF k = "unity_dims" THEN TRUE
                        ELSE IF k = "smooth" THEN self.iso.smooth
                        ELSE tm[2]]
        IN  IsoLoop(ctx, self.iso.isosurface_levels.values, 1,
                    [error |-> "none", meta |-> head, disk |-> disk, written |-> <<>>])

JsonFile(meta) == [kind |-> "json", meta |-> meta]

\* create_files(file_location): the manifest is built section by section
\* and written last; a section that raises ends the run where it stands.
\* now is the clock reading, directories the directories that exist.
CreateFilesBody(self, file_location, directories, disk, now, smoothed) ==
    LET checked == CheckDirectory(file_location, directories)
        location == checked.directory
        meta0 == [FILE_GENERATED |-> FormatTime(now) \o " UTC"]
        meta1 == IF self.radar THEN Put(meta0, "radar", self.radar_meta) ELSE meta0
        self1 == IF self.build_iso /\ self.iso # EmptyDict
                 THEN [self EXCEPT !.iso.isosurface_levels = LevelList(@)] ELSE self
    IN  IF checked.error # "none"
        THEN [self |-> self, disk |-> disk, written |-> <<>>, error |-> checked.error]
        ELSE Once({
             IF self.build_iso /\ iso.error # "none"
             THEN [self |-> self1, disk |-> iso.disk, written |-> iso.written, error |-> iso.error]
             ELSE Once({
                  IF self.build_vector /\ vec.error # "none"
                  THEN [self |-> self1, disk |-> iso.disk, written |-> iso.written,
                        error |-> vec.error]
                  ELSE LET meta2 == IF self.build_iso THEN Put(meta1, "isosurface", iso.meta)
                                    ELSE meta1
                           meta3 == IF self.build_vector THEN Put(meta2, "vector_field", vec.meta)
                                    ELSE meta2
                       IN  [self |-> self1,
                            disk |-> Put(vec.disk, location \o "meta.json", JsonFile(meta3)),
                            written |-> iso.written \o vec.written \o <<location \o "meta.json">>,
                            error |-> "none"] :
                  vec \in { IF self.build_vector
                            THEN CreateVectorFiles(self1, location, iso.disk)
                            ELSE [error |-> "none", meta |-> EmptyDict, disk |-> iso.disk,
                                  written |-> <<>>] } }) :
             iso \in { IF self.build_iso
                       THEN CreateIsosurfaceFiles(self, location, disk, smoothed)
                       ELSE [error |-> "none", meta |-> EmptyDict, disk |-> disk,
                             written |-> <<>>] } })

-----------------------------------------------------------------------------
(* init_radar and remove_radar                                             *)

\* nexrad_sites.csv, the rows explored: ID -> Coordinates, Elevation, Tower_h
SiteTable ==
    [KXYZ |-> [Coordinates |-> <<"4","4","3","0","4","0","N"," ","/"," ",
                                 "0","7","3","1","0","0","0","W">>,
               Elevation |-> 100, Tower_h |-> 20],
     KQQQ |-> [Coordinates |-> <<"1","0","1","5","0","0","S"," ","/"," ",
                                 "1","2","0","3","0","0","0","E">>,
               Elevation |-> 5, Tower_h |-> 10]]

\* coord_str.replace(" ", "").split("/"): the part before and after the "/"
SplitCoordinates(coord_str) ==
    LET packed == SelectSeq(coord_str, LAMBDA c : c # " ")
        slash  == CHOOSE i \in 1..Len(packed) : packed[i] = "/"
    IN  <<SubSeq(packed, 1, slash - 1), SubSeq(packed, slash + 1, Len(packed))>>

\* degrees + minutes / 60 + seconds / 3600 of the coordinate strings
\* (lines 323-333), as a rational; west of Greenwich and south are negative
Longitude(chars) ==
    LET value == Rat(DecimalValue(SubSeq(chars, 1, 3)) * 3600 + DecimalValue(SubSeq(chars, 4, 5)) * 60
                     + DecimalValue(SubSeq(chars, 6, 7)), 3600)
    IN  IF chars[Len(chars)] # "E" THEN <<0 - value[1], value[2]>> ELSE value

Latitude(chars) ==
    LET value == Rat(DecimalValue(SubSeq(chars, 1, 2)) * 3600 + DecimalValue(SubSeq(chars, 3, 4)) * 60
                     + DecimalValue(SubSeq(chars, 5, 6)), 3600)
    IN  IF chars[Len(chars)] = "S" THEN <<0 - value[1], value[2]>> ELSE value

\* variant that takes any 4-letter id without looking it up
InitRadarBody_noLookup(self, radar_id) ==
    IF Len(radar_id) # 4
    THEN [self |-> [self EXCEPT !.radar = TRUE], error |-> "ValueError: id length"]
    ELSE [self |-> [self EXCEPT !.radar = TRUE], error |-> "none"]

\* init_radar(radar_id): the flag is set before the id is looked at
InitRadarBody(self, radar_id) ==
    LET s1 == [self EXCEPT !.radar = TRUE]
        id == Join(Upper(radar_id))
    IN  IF Len(radar_id) # 4 THEN [self |-> s1, error |-> "ValueError: id length"]
        ELSE IF id \notin DOMAIN SiteTable THEN [self |-> s1, error |-> "ValueError: site"]
        ELSE LET coords == SplitCoordinates(SiteTable[id].Coordinates)
             IN  [self |-> [s1 EXCEPT !.radar_meta =
                               [id |-> id,
                                latitude  |-> Latitude(coords[1]),
                                longitude |-> Longitude(coords[2]),
                                elevation |-> SiteTable[id].Elevation + SiteTable[id].Tower_h,
                                elevation_units |-> "meter"]],
                  error |-> "none"]

\* variant that drops the metadata and leaves the flag on
RemoveRadarBody_keepsFlag(self) == [self EXCEPT !.radar_meta = None]

\* remove_radar()
RemoveRadarBody(self) == [self EXCEPT !.radar = FALSE, !.radar_meta = None]

-----------------------------------------------------------------------------
(* save_vector_field(U, V, W, filename, normalize)                         *)

\* the part of the file name before its last "/" ("/".join(split[:-1]))
BeforeLastSlash(filename) ==
    SubSeq(filename, 1, Len(filename) - Len(LastComponent(filename)) - 1)

\* filepath and end_file_name of lines 41-57: with a separator in the name,
\* end_file_name is the last element of the list the file name was already
\* cut off from, the name of the directory
SplitFileName(filename) ==
    IF \E i \in 1..Len(filename) : filename[i] = "/"
    THEN [sep |-> TRUE,
          filepath |-> BeforeLastSlash(filename),
          end_file_name |-> LastComponent(BeforeLastSlash(filename))]
    ELSE [sep |-> FALSE, filepath |-> <<>>, end_file_name |-> filename]

\* the dtypes lines 98-105 cast; any other raises ValueError
CastDtypes == {"float64", "float16", "float128"}

NoCall == [U |-> <<>>, V |-> <<>>, W |-> <<>>, normalize |-> FALSE]

\* the whole function on the disk given; U, V, W are bare arrays
SaveVectorFieldBody(U, V, W, filename, normalize, directories, disk) ==
    LET name == SplitFileName(filename)
        failed(e) == [error |-> e, disk |-> disk, written |-> <<>>]
    IN  IF name.sep /\ name.filepath \notin directories THEN failed("FileNotFoundError")
        ELSE IF \E a \in {U, V, W} : Len(a.shape) # 3 THEN failed("ValueError: dimensions")
        ELSE IF U.shape # V.shape \/ U.shape # W.shape \/ V.shape # W.shape
             THEN failed("ValueError: shape")
        ELSE
        LET vector_field == Once({ IF normalize THEN Normalize(f) ELSE f :
                                   f \in {Stack(<<W, V, U>>)} })
            unity_axes == <<"y", "z", "x">>
            prefix == IF name.sep THEN Join(name.filepath) \o "/" ELSE ""
            paths == [i \in 1..3 |-> prefix \o unity_axes[i] \o "_" \o Join(name.end_file_name)]
        IN  IF vector_field[1].dtype \notin CastDtypes THEN failed("ValueError: dtype")
            ELSE [error   |-> "none",
                  disk    |-> [path \in DOMAIN disk \cup { paths[i] : i \in 1..3 } |->
                                  IF \E i \in 1..3 : path = paths[i]
                                  THEN VfFile(VfBytes(vector_field[
                                           CHOOSE i \in 1..3 : path = paths[i]]))
                                  ELSE disk[path]],
                  written |-> paths]

\* create_file has not been called
NoCreateFile == [radar |-> <<>>, velocity |-> FALSE]

\* no unity_files object is in play and no file has been saved
ExportIdle ==
    /\ unity_f = NewUnityFiles
    /\ file_system = EmptyDict
    /\ opened = <<>>
    /\ export_raised = "none"
    /\ runs = 0
    /\ save_call = NoCall
    /\ create_file_call = NoCreateFile

-----------------------------------------------------------------------------
(* Specification SpecGrid: grid attributes are set, checked and, when      *)
(* accepted, expanded to the coordinate volumes                            *)

ScenarioGrid == SetGrid(1000, -10, 10, -10, 10, 0, 5, 500)

HorizontalResolutions == {1000, 3000, 0, -5, 200, 20000}
VerticalResolutions   == {500, 0, -1, 3000}
XExtents == {<<-10, 10>>, <<10, -10>>, <<-240, 240>>, <<5, 5>>}
YExtents == {<<-10, 10>>, <<10, -10>>, <<0, 235>>}
ZExtents == {<<0, 5>>, <<5, 0>>, <<-1, 5>>, <<2, 2>>}

GridInputs ==
    { SetGrid(h, x[1], x[2], y[1], y[2], z[1], z[2], v) :
        h \in HorizontalResolutions, x \in XExtents, y \in YExtents,
        z \in ZExtents, v \in VerticalResolutions }

FindIdle ==
    /\ radar_files = <<>>
    /\ time = Epoch
    /\ find_pc = "idle"
    /\ find_result = Raised("none")

InitGrid ==
    /\ grid \in GridInputs
    /\ grid_pc = "set"
    /\ grid_check = [error |-> "none", warnings |-> {}]
    /\ volumes = NoVolumes
    /\ grid_shape = <<0, 0, 0>>
    /\ FindIdle
    /\ ObjectAbsent
    /\ ExportIdle

\* line 72: self.__check_grid_inputs__()
CallCheckGridInputs ==
    /\ grid_pc = "set"
    /\ grid_check' = CheckGridInputs(grid)
    /\ grid_pc' = IF grid_check'.error = "none" THEN "checked" ELSE "raised"
    /\ UNCHANGED <<grid, volumes, grid_shape>>
    /\ UNCHANGED find_vars
    /\ UNCHANGED object_vars
    /\ UNCHANGED export_vars

\* line 74: self.__grid_radar__(), reached only when the check returned
CallGridRadar ==
    /\ grid_pc = "checked"
    /\ volumes' = GridRadar(grid).volumes
    /\ grid_shape' = GridRadar(grid).grid_shape
    /\ grid_pc' = "gridded"
    /\ UNCHANGED <<grid, grid_check>>
    /\ UNCHANGED find_vars
    /\ UNCHANGED object_vars
    /\ UNCHANGED export_vars

NextGrid == CallCheckGridInputs \/ CallGridRadar

SpecGrid == InitGrid /\ [][NextGrid]_vars

-----------------------------------------------------------------------------
(* Specification SpecFind: one call of __find_radar_file__ on a listing    *)

InitFind ==
    /\ radar_files \in Catalogs
    /\ time \in Targets
    /\ find_pc = "input"
    /\ find_result = Raised("none")
    /\ GridIdle
    /\ ObjectAbsent
    /\ ExportIdle

CallFindRadarFile ==
    /\ find_pc = "input"
    /\ find_result' = FindRadarFile(radar_files, Site, time)
    /\ find_pc' = IF find_result'.status = "returned" THEN "returned" ELSE "raised"
    /\ UNCHANGED <<radar_files, time>>
    /\ UNCHANGED grid_vars
    /\ UNCHANGED object_vars
    /\ UNCHANGED export_vars

NextFind == CallFindRadarFile

SpecFind == InitFind /\ [][NextFind]_vars

-----------------------------------------------------------------------------
(* Specification SpecRadar: an object is constructed and reconfigured      *)

RadarInputs == { Site, <<"k", "x", "y", "z">>, <<"K", "X", "Y">> }

TimeInputs ==
    { DateTime(1999, 1, 1, 0, 3, 0), DateTime(1999, 1, 1, 0, 20, 0),
      DateTime(1999, 1, 2, 0, 3, 0) }

ObjectGrids ==
    { ScenarioGrid,
      SetGrid(20000, -240, 240, 0, 250, 1, 13, 3000),
      SetGrid(1000, 10, -10, -10, 10, 0, 5, 0) }

VariableInputs == {"reflectivity", "velocity"}

\* the attributes a method leaves behind become the state of the object
Becomes(out) ==
    /\ radar' = out.self.radar
    /\ time' = out.self.time
    /\ grid' = out.self.grid
    /\ velocity' = out.self.velocity
    /\ variable' = out.self.variable
    /\ buckets' = out.self.buckets
    /\ radar_file' = out.self.radar_file
    /\ f_time' = out.self.f_time
    /\ radar_grid' = out.self.radar_grid
    /\ uvw' = out.self.uvw
    /\ volumes' = out.self.volumes
    /\ io_log' = out.io
    /\ raised' = out.raised

InitRadar ==
    /\ ObjectAbsent
    /\ time = Epoch
    /\ radar_files = <<>>
    /\ find_pc = "idle"
    /\ find_result = Raised("none")
    /\ GridIdle
    /\ ExportIdle

\* nexrad_to_unity(radar, time, ...): an exception leaves no object
Construct ==
    /\ ~ constructed
    /\ \E r \in RadarInputs, t \in TimeInputs, g \in ObjectGrids :
          \E out \in {InitBody(r, t, g)} :
              IF out.raised = "none"
              THEN constructed' = TRUE /\ Becomes(out)
              ELSE /\ io_log' = out.io
                   /\ raised' = out.raised
                   /\ UNCHANGED <<constructed, radar, time, grid, velocity,
                                  variable, buckets, radar_file, f_time,
                                  radar_grid, uvw, volumes>>
    /\ UNCHANGED <<radar_files, find_pc, find_result, grid_pc, grid_check, grid_shape>>
    /\ UNCHANGED export_vars

\* change_radar(radar, time, ...)
ChangeRadar ==
    /\ constructed
    /\ \E r \in RadarInputs, t \in TimeInputs, g \in ObjectGrids :
          \E out \in {ChangeRadarBody(Self, <<>>, r, t, g)} : Becomes(out)
    /\ UNCHANGED <<constructed, radar_files, find_pc, find_result,
                   grid_pc, grid_check, grid_shape>>
    /\ UNCHANGED export_vars

\* change_variable(variable)
ChangeVariable ==
    /\ constructed
    /\ \E v \in VariableInputs : variable' = v
    /\ io_log' = <<>>
    /\ raised' = "none"
    /\ UNCHANGED <<constructed, radar, time, grid, velocity, buckets, radar_file,
                   f_time, radar_grid, uvw, volumes>>
    /\ UNCHANGED <<radar_files, find_pc, find_result, grid_pc, grid_check, grid_shape>>
    /\ UNCHANGED export_vars

\* add_velocity_vector()
AddVelocityVector ==
    /\ constructed
    /\ \E out \in {AddVelocityVectorBody(Self, <<>>)} : Becomes(out)
    /\ UNCHANGED <<constructed, radar_files, find_pc, find_result,
                   grid_pc, grid_check, grid_shape>>
    /\ UNCHANGED export_vars

NextRadar == Construct \/ ChangeRadar \/ ChangeVariable \/ AddVelocityVector

SpecRadar == InitRadar /\ [][NextRadar]_vars

-----------------------------------------------------------------------------
(* Specification SpecExport: a unity_files object is given isosurface      *)
(* data, vector data and a radar id in any order and any number of times,  *)
(* then create_files runs on it, up to MaxRuns times.                      *)

FieldShape == <<2, 3, 2>>

OtherShape == <<1, 2, 3>>

\* a 2-D array
Flat == [shape |-> <<2, 3>>, dtype |-> "float64", data |-> [n \in 1..6 |-> <<n, 1>>]]

\* coordinate volumes: kilometres, degrees, no units, not 3-D
X_km  == Quantity("kilometer", Ramp(FieldShape, "float64", -6, 1))
Y_km  == Quantity("kilometer", Ramp(FieldShape, "float64", 10, 2))
Z_km  == Quantity("kilometer", Ramp(FieldShape, "float64", 0, 1))
Lon   == Quantity("degree", Ramp(FieldShape, "float64", -93, 1))
Lat   == Quantity("degree", Ramp(FieldShape, "float64", 40, 1))

CoordinateInputs ==
    { <<X_km, Y_km, Z_km>>, <<Lon, Lat, Z_km>> }

BadCoordinateInputs ==
    { <<Bare(X_km.magnitude), Y_km, Z_km>>, <<X_km, Quantity("kilometer", Flat), Z_km>> }

\* wind components: U rises from 1, V from -16 in steps of 3, W falls from 5
U_ms   == Quantity("meter / second", Ramp(FieldShape, "float64", 1, 1))
V_kt   == Quantity("knot", Ramp(FieldShape, "float64", -16, 3))
W_cms  == Quantity("centimeter / second", Ramp(FieldShape, "float64", 5, -1))
Still  == Quantity("meter / second", Ramp(FieldShape, "float64", 0, 0))
U_half == Quantity("meter / second", Ramp(FieldShape, "float16", 1, 1))
U_single == Quantity("meter / second", Ramp(FieldShape, "float32", 1, 1))
V_single == Quantity("knot", Ramp(FieldShape, "float32", -16, 3))
W_single == Quantity("centimeter / second", Ramp(FieldShape, "float32", 5, -1))
U_int  == Bare(Ramp(FieldShape, "int64", -3, 1))
V_other == Quantity("knot", Ramp(OtherShape, "float64", 2, 1))
W_other == Quantity("centimeter / second", Ramp(OtherShape, "float64", -2, 2))

ValidTime == [kind |-> "datetime", value |-> DateTime(1999, 1, 1, 0, 5, 12)]

RunTime == [kind |-> "quantity", magnitude |-> 90]

VectorCall(c, U, V, W, t, normalize) ==
    [x |-> c[1], y |-> c[2], z |-> c[3], U |-> U, V |-> V, W |-> W, t |-> t,
     normalize |-> normalize]

\* the input_vector_data calls explored: the full winds with every choice
\* of present components, still air, the other dtypes, components of
\* another shape, and inputs the call refuses
VectorCalls ==
    { VectorCall(c, U_ms, V, W, ValidTime, n) :
         c \in CoordinateInputs, V \in {None, V_kt}, W \in {None, W_cms}, n \in BOOLEAN }
    \cup { VectorCall(<<X_km, Y_km, Z_km>>, Still, V, V, None, TRUE) : V \in {None, Still} }
    \cup { VectorCall(<<X_km, Y_km, Z_km>>, U, None, W_cms, RunTime, n) :
         U \in {U_half, U_single, U_int}, n \in BOOLEAN }
    \cup { VectorCall(<<X_km, Y_km, Z_km>>, U_ms, V_other, None, None, FALSE),
           VectorCall(<<X_km, Y_km, Z_km>>, U_ms, V_kt, W_other, None, FALSE) }
    \cup { VectorCall(c, U_ms, V_kt, None, None, FALSE) : c \in BadCoordinateInputs }
    \cup { VectorCall(<<X_km, Y_km, Z_km>>, U_ms, None, Bare(Flat), None, FALSE) }

\* reflectivity volume and the levels asked for
Reflectivity == Quantity("dBZ", Ramp(FieldShape, "float64", 0, 5))

Levels(values) == [scalar |-> FALSE, values |-> values]

Level(value) == [scalar |-> TRUE, values |-> <<value>>]

IsoCall(c, data, levels, t, file_type, smooth, variable_name) ==
    [x |-> c[1], y |-> c[2], z |-> c[3], data |-> data, levels |-> levels, t |-> t,
     file_type |-> file_type, smooth |-> smooth, variable_name |-> variable_name]

IsoCalls ==
    { IsoCall(<<X_km, Y_km, Z_km>>, Reflectivity, Levels(<<20, 60>>), ValidTime,
              <<".", "d", "a", "e">>, FALSE, <<"reflectivity">>),
      IsoCall(<<Lon, Lat, Z_km>>, Reflectivity, Levels(<<20, 40>>), ValidTime,
              <<".", "d", "a", "e">>, TRUE, <<"reflectivity">>),
      IsoCall(<<X_km, Y_km, Z_km>>, Reflectivity, Level(20), None, <<"O", "B", "J">>,
              FALSE, <<>>),
      IsoCall(<<X_km, Y_km, Z_km>>, Reflectivity, Levels(<<60, 20>>), None,
              <<"s", "t", "l">>, FALSE, <<>>),
      IsoCall(<<X_km, Y_km, Z_km>>, Reflectivity, Levels(<<>>), None,
              <<"s", "t", "l">>, FALSE, <<>>),
      IsoCall(<<X_km, Y_km, Z_km>>, Bare(Flat), Level(20), None, <<"d", "a", "e">>,
              FALSE, <<>>) }

RadarIds == { <<"k", "x", "y", "z">>, <<"K", "X", "Y">>, <<"K", "X", "Y", "Q">> }

\* the directory that exists, and the paths create_files is given
Directories == { <<"o", "u", "t">> }

FileLocations == { <<"o", "u", "t">>, <<"o", "u", "t", "/">>, <<"g", "o", "n", "e">> }

\* datetime.now(timezone.utc) at the n-th call of create_files: the clock
\* moves on by a second between the runs
Clock(n) == DateTime(1999, 1, 2, 0, 3, 12) + n

InitExport ==
    /\ ExportIdle
    /\ FindIdle
    /\ GridIdle
    /\ ObjectAbsent

OthersUnchanged == UNCHANGED find_vars /\ UNCHANGED grid_vars /\ UNCHANGED object_vars

\* unity_f.input_vector_data(x, y, z, U, V, W, time, normalize)
InputVectorData ==
    /\ runs = 0
    /\ save_call = NoCall
    /\ create_file_call = NoCreateFile
    /\ \E c \in VectorCalls :
          \E out \in {InputVectorDataBody(unity_f, c.x, c.y, c.z, c.U, c.V, c.W, c.t, c.normalize)} :
              unity_f' = out.self /\ export_raised' = out.error
    /\ UNCHANGED <<file_system, opened, runs, save_call, create_file_call>>
    /\ OthersUnchanged

\* unity_f.input_isosurface_data(x, y, z, data, levels, time, file_type, smooth, name)
InputIsosurfaceData ==
    /\ runs = 0
    /\ save_call = NoCall
    /\ create_file_call = NoCreateFile
    /\ \E c \in IsoCalls :
          \E out \in {InputIsosurfaceDataBody(unity_f, c.x, c.y, c.z, c.data, c.levels, c.t,
                                              c.file_type, c.smooth, c.variable_name)} :
              unity_f' = out.self /\ export_raised' = out.error
    /\ UNCHANGED <<file_system, opened, runs, save_call, create_file_call>>
    /\ OthersUnchanged

\* unity_f.init_radar(radar_id)
InitRadarMeta ==
    /\ runs = 0
    /\ save_call = NoCall
    /\ create_file_call = NoCreateFile
    /\ \E id \in RadarIds :
          \E out \in {InitRadarBody(unity_f, id)} :
              unity_f' = out.self /\ export_raised' = out.error
    /\ UNCHANGED <<file_system, opened, runs, save_call, create_file_call>>
    /\ OthersUnchanged

\* unity_f.remove_radar()
RemoveRadar ==
    /\ runs = 0
    /\ save_call = NoCall
    /\ create_file_call = NoCreateFile
    /\ unity_f' = RemoveRadarBody(unity_f)
    /\ export_raised' = "none"
    /\ UNCHANGED <<file_system, opened, runs, save_call, create_file_call>>
    /\ OthersUnchanged

\* unity_f.create_files(file_location)
CreateFiles ==
    /\ runs < MaxRuns
    /\ save_call = NoCall
    /\ create_file_call = NoCreateFile
    /\ \E location \in FileLocations :
          \E smoothed \in (IF unity_f.build_iso /\ "var" \in DOMAIN unity_f.iso_dims
                              /\ unity_f.iso # EmptyDict /\ unity_f.iso.smooth
                           THEN McSmooth(SwapAxes(unity_f.iso_dims["var"].data))
                           ELSE {Flat}) :
             \E out \in {CreateFilesBody(unity_f, location, Directories, file_system, Clock(runs), smoothed)} :
                /\ unity_f' = out.self
                /\ file_system' = out.disk
                /\ opened' = out.written
                /\ export_raised' = out.error
    /\ runs' = runs + 1
    /\ UNCHANGED <<save_call, create_file_call>>
    /\ OthersUnchanged

\* the arrays and file names save_vector_field is called with
SaveArrays ==
    { U_ms.magnitude, Still.magnitude, U_half.magnitude, U_single.magnitude,
      V_other.magnitude, Flat }

SaveFileNames ==
    { <<"o", "u", "t", "/", "w", ".", "v", "f">>, <<"w", ".", "v", "f">>,
      <<"g", "o", "n", "e", "/", "w", ".", "v", "f">> }

\* save_vector_field(U, V, W, filename, normalize), called once on an empty
\* destination
SaveVectorField ==
    /\ runs = 0
    /\ save_call = NoCall
    /\ create_file_call = NoCreateFile
    /\ unity_f = NewUnityFiles
    /\ \E U \in SaveArrays,
          V \in {V_kt.magnitude, Still.magnitude, V_other.magnitude, V_single.magnitude},
          W \in {W_cms.magnitude, Still.magnitude, W_other.magnitude, Flat,
                 W_single.magnitude},
          filename \in SaveFileNames, normalize \in BOOLEAN :
          \E out \in {SaveVectorFieldBody(U, V, W, filename, normalize, Directories, file_system)} :
             /\ file_system' = out.disk
             /\ opened' = out.written
             /\ export_raised' = out.error
             /\ save_call' = [U |-> U, V |-> V, W |-> W, normalize |-> normalize]
    /\ UNCHANGED <<unity_f, runs, create_file_call>>
    /\ OthersUnchanged

\* the attributes of the nexrad_to_unity object create_file reads: volumes
\* in metres, the gridded field without units, the winds in knots
GridX == Quantity("meter", X_km.magnitude)
GridY == Quantity("meter", Y_km.magnitude)
GridZ == Quantity("meter", Z_km.magnitude)
GridField == Bare(Reflectivity.magnitude)
GridU == Quantity("knot", U_ms.magnitude)
GridV == Quantity("knot", V_kt.magnitude)
GridW == Quantity("knot", W_cms.magnitude)

\* the sites the object was made for: both are in the archive, the second is
\* not in the site table
CreateFileSites == { <<"K", "X", "Y", "Z">>, <<"K", "X", "Y", "Q">> }

\* nexrad_to_unity.create_file(save_location, isosurfaces, file_type, smooth)
\* on an object with self.__radar__ = site and self.__velocity__ =
\* with_velocity: a new unity_files object is given the isosurface data, the
\* winds when there are any, the site, and is told to write; the first call
\* that raises ends the method
CreateFileBody(site, with_velocity, save_location, isosurfaces, file_type, smooth, directories, disk, now, smoothed) ==
    LET stop(self, error) == [self |-> self, disk |-> disk, written |-> <<>>,
                              error |-> error, reached |-> FALSE]
    IN  Once({
        IF iso.error # "none" THEN stop(iso.self, iso.error)
        ELSE Once({
             IF vec.error # "none" THEN stop(vec.self, vec.error)
             ELSE Once({
                  IF site_meta.error # "none" THEN stop(site_meta.self, site_meta.error)
                  ELSE Once({ [self |-> out.self, disk |-> out.disk, written |-> out.written,
                               error |-> out.error, reached |-> TRUE] :
                              out \in {CreateFilesBody(site_meta.self, save_location, directories,
                                                       disk, now, smoothed)} }) :
                  site_meta \in {InitRadarBody(vec.self, site)} }) :
             vec \in { IF with_velocity
                       THEN InputVectorDataBody(iso.self, GridX, GridY, GridZ, GridU, GridV,
                                                GridW, ValidTime, FALSE)
                       ELSE iso } }) :
        iso \in {InputIsosurfaceDataBody(NewUnityFiles, GridX, GridY, GridZ, GridField,
                                         isosurfaces, ValidTime, file_type, smooth,
                                         <<"reflectivity">>)} })

\* create_file, called once on an empty destination; unity_f shows the
\* object the method made
CreateFile ==
    /\ runs = 0
    /\ save_call = NoCall
    /\ create_file_call = NoCreateFile
    /\ unity_f = NewUnityFiles
    /\ \E site \in CreateFileSites, with_velocity \in BOOLEAN,
          save_location \in {<<"o", "u", "t">>, <<"g", "o", "n", "e">>},
          isosurfaces \in {Level(20), Levels(<<20, 40>>)} :
          \E out \in {CreateFileBody(site, with_velocity, save_location, isosurfaces,
                                     <<"d", "a", "e">>, FALSE, Directories, file_system,
                                     Clock(runs), Flat)} :
             /\ unity_f' = out.self
             /\ file_system' = out.disk
             /\ opened' = out.written
             /\ export_raised' = out.error
             /\ runs' = IF out.reached THEN runs + 1 ELSE runs
             /\ create_file_call' = [radar |-> site, velocity |-> with_velocity]
    /\ UNCHANGED save_call
    /\ OthersUnchanged

NextExport ==
    \/ InputVectorData
    \/ InputIsosurfaceData
    \/ InitRadarMeta
    \/ RemoveRadar
    \/ CreateFiles
    \/ SaveVectorField
    \/ CreateFile

SpecExport == InitExport /\ [][NextExport]_vars

-----------------------------------------------------------------------------
(* Properties of __find_radar_file__                                       *)

Abs(n) == IF n < 0 THEN 0 - n ELSE n

Entries(c) == { c[i] : i \in 1..Len(c) }

AllDated(c) == \A e \in Entries(c) : IsDated(e)

\* C1: on a listing whose entries all carry a parseable timestamp, the call
\* returns the entry nearest in time to the requested time, and of two
\* equally near entries the later one.
C1_NearestEntry ==
    (find_pc # "input" /\ AllDated(radar_files)) =>
        /\ find_result.status = "returned"
        /\ find_result.file \in Entries(radar_files)
        /\ \A e \in Entries(radar_files) :
              \/ Abs(EntryTime(find_result.file) - time) < Abs(EntryTime(e) - time)
              \/ /\ Abs(EntryTime(find_result.file) - time) = Abs(EntryTime(e) - time)
                 /\ EntryTime(find_result.file) >= EntryTime(e)

\* the tie of C1 happens: the requested time is midway between two entries
C1_Witness ==
    /\ find_pc = "returned"
    /\ AllDated(radar_files)
    /\ \E e1, e2 \in Entries(radar_files) :
          /\ EntryTime(e1) < time /\ time < EntryTime(e2)
          /\ time - EntryTime(e1) = EntryTime(e2) - time
          /\ find_result.file = e2

\* C2: whenever the listing holds a timestamped entry, the entry returned is
\* not a tar/MDM sidecar.
C2_NeverSidecar ==
    (find_pc = "returned" /\ \E e \in Entries(radar_files) : IsDated(e)) =>
        ~ IsSidecar(LastChars(find_result.file, 3))

Scenario ==
    /\ radar_files = <<Scan_000012, Scan_000512, TarSidecar>>
    /\ time = DateTime(1999, 1, 1, 0, 3, 0)

\* C3 as stated: on the listing [..._000012_V06, ..._000512_V06,
\* TAR_SIDECAR.tar] and the requested time 00:03:00 the call returns the second
\* entry with a time difference of 2 minutes and without a warning.
C3_ScenarioTwoMinutes ==
    (Scenario /\ find_pc # "input") =>
        /\ find_result.status = "returned"
        /\ find_result.file = Scan_000512
        /\ find_result.dt = 2 * 60
        /\ ~ find_result.warned

\* C3 as amended: on that listing and requested time the call returns the
\* second entry, the time difference it computes is 2 minutes 12 seconds
\* (t_min = 2.2), and there is no warning.
C3_ScenarioExact ==
    (Scenario /\ find_pc # "input") =>
        /\ find_result.status = "returned"
        /\ find_result.file = Scan_000512
        /\ find_result.dt = 2 * 60 + 12
        /\ find_result.bound = "future"
        /\ ~ find_result.warned

C3_Witness == Scenario /\ find_pc = "returned"

\* the 3-character suffix of the entry is none of MDM, tar, .gz and V06
IsUnknown(file) ==
    LastChars(LastComponent(file), 3) \notin {End_MDM, End_tar, End_gz, End_V06}

\* C4 as stated: a listing that holds an entry of unknown ending at any
\* position makes the call fail with the unknown-file-type exception.
C4_UnknownAnywhereFails ==
    (find_pc # "input" /\ \E e \in Entries(radar_files) : IsUnknown(e)) =>
        find_result.status = "Exception"

\* the entry at position i is reached by the loop: every entry before it is a
\* sidecar or a dated entry not after the requested time
Reached(c, i) ==
    \A j \in 1..(i - 1) :
        \/ EntryKind(c[j]) = "pass"
        \/ (IsDated(c[j]) /\ EntryTime(c[j]) <= time)

\* C4 as amended: a listing in which an entry of unknown ending is reached by
\* the loop (no dated entry later than the requested time precedes it) makes
\* the call fail with the unknown-file-type exception.
C4_UnknownReachedFails ==
    (find_pc # "input"
        /\ \E i \in 1..Len(radar_files) :
              IsUnknown(radar_files[i]) /\ Reached(radar_files, i)) =>
        find_result.status = "Exception"

\* an unknown entry standing behind an earlier dated entry stops the call
C4_Witness ==
    /\ find_pc = "raised"
    /\ find_result.status = "Exception"
    /\ \E i \in 2..Len(radar_files) :
          /\ IsUnknown(radar_files[i]) /\ Reached(radar_files, i)
          /\ \E j \in 1..(i - 1) : IsDated(radar_files[j])

\* C5: whenever the returned entry's timestamp is more than 15 minutes from
\* the requested time, the call has warned (and it has returned the entry).
C5_FarWarns ==
    (find_pc # "input"
        /\ find_result.status = "returned"
        /\ IsDated(find_result.file)
        /\ Abs(EntryTime(find_result.file) - time) > 15 * 60) =>
        find_result.warned

\* a hard invariant of the grid is violated
HardViolated(g) ==
    \/ g.x_start > g.x_end
    \/ g.y_start > g.y_end
    \/ g.z_start > g.z_end
    \/ g.z_start < 0
    \/ g.horizontal_resolution <= 0
    \/ g.vertical_resolution <= 0

\* a soft bound of the grid is violated
SoftViolated(g) ==
    \/ \E e \in {g.x_start, g.x_end, g.y_start, g.y_end} : e > 230000 \/ e < -230000
    \/ g.horizontal_resolution < 250
    \/ g.horizontal_resolution > 10000
    \/ g.vertical_resolution > 2000

\* C6: __check_grid_inputs__ raises exactly when a hard invariant is
\* violated; a grid that violates only soft bounds is accepted with warnings.
C6_FailsExactlyOnHard ==
    (grid_pc \in {"checked", "raised", "gridded"}) =>
        /\ (grid_check.error # "none") <=> HardViolated(grid)
        /\ (grid_pc = "raised") <=> HardViolated(grid)
        /\ (~ HardViolated(grid) /\ SoftViolated(grid)) =>
              (grid_check.error = "none" /\ grid_check.warnings # {})

\* a grid that breaks every kind of soft bound and no hard invariant is accepted
C6_Witness ==
    /\ grid_pc = "checked"
    /\ ~ HardViolated(grid)
    /\ grid.x_end > 230000 /\ grid.x_start < -230000
    /\ grid.horizontal_resolution > 10000
    /\ grid.vertical_resolution > 2000
    /\ grid_check.warnings = {"beyond range", "beyond -range", "coarse", "coarse_z"}

CeilDiv(a, b) == (a + b - 1) \div b

PointCounts(g) ==
    <<CeilDiv(g.z_end - g.z_start, g.vertical_resolution) + 1,
      CeilDiv(g.y_end - g.y_start, g.horizontal_resolution) + 1,
      CeilDiv(g.x_end - g.x_start, g.horizontal_resolution) + 1>>

\* C8: for a valid grid the x, y and z volumes have one shape (nz, ny, nx),
\* each count being ceil((end - start) / resolution) + 1, the z, y and x
\* coordinates run along the first, second and third axis, and that shape is
\* the grid_shape requested; the scenario grid gives 11, 21 and 21 points.
C8_VolumeShape ==
    (grid_pc = "gridded") =>
        /\ volumes.x.shape = PointCounts(grid)
        /\ volumes.y.shape = PointCounts(grid)
        /\ volumes.z.shape = PointCounts(grid)
        /\ grid_shape = PointCounts(grid)
        /\ volumes.z.along = 1 /\ Len(volumes.z.coords) = volumes.z.shape[1]
        /\ volumes.y.along = 2 /\ Len(volumes.y.coords) = volumes.y.shape[2]
        /\ volumes.x.along = 3 /\ Len(volumes.x.coords) = volumes.x.shape[3]
        /\ (grid = ScenarioGrid) => grid_shape = <<11, 21, 21>>

\* the scenario grid has been expanded
C8_Witness ==
    /\ grid_pc = "gridded"
    /\ grid = ScenarioGrid
    /\ volumes.x.shape = <<11, 21, 21>>

\* C7: when __init__ or change_radar ends with the grid error, no I/O (no
\* archive listing, no download, no file write) has been done before it.
C7_GridErrorBeforeIO ==
    (raised = "ValueError: grid") => io_log = <<>>

-----------------------------------------------------------------------------
(* Properties of the vector export                                         *)

\* the paths of the vector files on the disk
VfPaths == { path \in DOMAIN file_system : file_system[path].kind = "vf" }

\* the n-th 4-byte word after the 10 bytes of the header
Word(bytes, n) == SubSeq(bytes, 10 + 4 * (n - 1) + 1, 10 + 4 * n)

\* the components the export was given, as it holds them when it stacks
\* them: transposed by create_files, as they are by save_vector_field
GivenComponents ==
    IF save_call # NoCall THEN <<save_call.U, save_call.V, save_call.W>>
    ELSE LET vd == unity_f.vector_dims
         IN  <<SwapAxes(vd["U"].data)>>
             \o (IF "V" \in DOMAIN vd THEN <<SwapAxes(vd["V"].data)>> ELSE <<>>)
             \o (IF "W" \in DOMAIN vd THEN <<SwapAxes(vd["W"].data)>> ELSE <<>>)

\* the same components with the values the export writes
ExportedComponents ==
    IF (IF save_call # NoCall THEN save_call.normalize ELSE unity_f.vector_normalize)
    THEN Normalize(Stack(GivenComponents)) ELSE Stack(GivenComponents)

\* C9: every vector file on the disk is the 4 bytes VF_F, then width, height
\* and depth as little-endian unsigned 16-bit integers, which are the last,
\* middle and first extent of the (transposed) component arrays, then
\* width * height * depth little-endian binary32 values, the value of voxel
\* [z, y, x] of one of the components standing at position
\* (z * height + y) * width + x; the file has 10 + 4 * width * height * depth
\* bytes.
C9_VfLayout ==
    \A path \in VfPaths :
        LET bytes  == file_system[path].bytes
            shape  == GivenComponents[1].shape
            depth  == shape[1]
            height == shape[2]
            width  == shape[3]
        IN  /\ SubSeq(bytes, 1, 4) = <<86, 70, 95, 70>>
            /\ SubSeq(bytes, 5, 10) = <<width % 256, width \div 256, height % 256,
                                        height \div 256, depth % 256, depth \div 256>>
            /\ Len(bytes) = 10 + 4 * width * height * depth
            /\ \E c \in 1..Len(GivenComponents) :
                  \A z \in 0..(depth - 1), y \in 0..(height - 1), x \in 0..(width - 1) :
                      Word(bytes, (z * height + y) * width + x + 1)
                          = PackFloat(At(ExportedComponents[c], z + 1, y + 1, x + 1))

\* create_files has written the three vector files of a normalised field
\* whose extents all differ from the order they are written in
C9_Witness ==
    /\ runs > 0
    /\ export_raised = "none"
    /\ Cardinality(VfPaths) = 3
    /\ unity_f.vector_normalize
    /\ file_system["out/x_vector.vf"].bytes[5] = 3
    /\ file_system["out/x_vector.vf"].bytes[9] = 2

\* the samples read back from the file at the path are those of the
\* transposed component stored under the key
HoldsComponent(path, key) ==
    LET bytes == file_system[path].bytes
        data  == unity_f.vector_dims[key].data
    IN  \A i \in 1..data.shape[1], j \in 1..data.shape[2], k \in 1..data.shape[3] :
            \* voxel [i, k, j] of the transposed array is voxel [i, j, k] of data
            UnpackFloat(Word(bytes, ((i - 1) * data.shape[3] + (k - 1)) * data.shape[2] + j))
                = At(data, i, j, k)

\* C10: after create_files (the field not normalised), x_vector.vf holds the
\* transposed U component, y_vector.vf the transposed W component and
\* z_vector.vf the transposed V component, whichever components are present.
C10_AxisFiles ==
    (runs > 0 /\ save_call = NoCall /\ ~ unity_f.vector_normalize) =>
        /\ "out/x_vector.vf" \in DOMAIN file_system => HoldsComponent("out/x_vector.vf", "U")
        /\ "out/y_vector.vf" \in DOMAIN file_system => HoldsComponent("out/y_vector.vf", "W")
        /\ "out/z_vector.vf" \in DOMAIN file_system => HoldsComponent("out/z_vector.vf", "V")

\* the manifest create_files left at the destination
Manifest == file_system["out/meta.json"].meta

\* the keys of a manifest section that are entries of files
FileEntries(section) ==
    { k \in DOMAIN section : k \notin {"grid", "unity_dims", "smooth", "Date", "Run_Time"} }

\* the vector file names that belong to the components the object holds
ComponentFiles ==
    {"x_vector.vf"}
    \cup (IF "W" \in DOMAIN unity_f.vector_dims THEN {"y_vector.vf"} ELSE {})
    \cup (IF "V" \in DOMAIN unity_f.vector_dims THEN {"z_vector.vf"} ELSE {})

\* C11: a create_files run that built the vector section has written x_
\* always, y_ exactly when W was given and z_ exactly when V was given, no
\* other vector file, and the vector_field section of the manifest has an
\* entry for exactly these files; a run without vector data writes none.
C11_FilePerComponent ==
    (save_call = NoCall /\ "out/meta.json" \in DOMAIN file_system) =>
        IF unity_f.build_vector
        THEN /\ VfPaths = { "out/" \o name : name \in ComponentFiles }
             /\ FileEntries(Manifest["vector_field"]) = ComponentFiles
        ELSE VfPaths = {} /\ "vector_field" \notin DOMAIN Manifest

\* a run has written the x_ and y_ files of a field given as U and W only
C11_Witness ==
    /\ save_call = NoCall
    /\ "out/meta.json" \in DOMAIN file_system
    /\ unity_f.build_vector
    /\ DOMAIN unity_f.vector_dims \cap {"U", "V", "W"} = {"U", "W"}
    /\ VfPaths = {"out/x_vector.vf", "out/y_vector.vf"}

\* normalisation was asked for in the call that wrote the vector files
Normalised == IF save_call # NoCall THEN save_call.normalize ELSE unity_f.vector_normalize

\* the magnitudes of all samples of all given components
Magnitudes ==
    { RatAbs(GivenComponents[c].data[n]) :
         c \in 1..Len(GivenComponents), n \in 1..Len(GivenComponents[1].data) }

\* the largest magnitude over all components together
JointMax == CHOOSE v \in Magnitudes : \A w \in Magnitudes : ~ RatLess(v, w)

\* the values read back from the vector file at the path
ReadBack(path) ==
    LET bytes == file_system[path].bytes
    IN  [n \in 1..((Len(bytes) - 10) \div 4) |-> UnpackFloat(Word(bytes, n))]

One == <<1, 1>>

\* C12: when a normalised export of a field that is not all zero has
\* written its files, each file holds the samples of one component divided
\* by the largest magnitude over all components together, every value read
\* back lies in [-1, 1], and the largest magnitude read back over all the
\* files is exactly 1.
C12_JointNormalisation ==
    (VfPaths # {} /\ Normalised /\ JointMax[1] # 0) =>
        \A maximum \in {JointMax} :
            /\ \A path \in VfPaths :
                  \E c \in 1..Len(GivenComponents) :
                     \A n \in 1..Len(GivenComponents[c].data) :
                        Word(file_system[path].bytes, n)
                            = PackFloat(RatDiv(GivenComponents[c].data[n], maximum))
            /\ \A path \in VfPaths : \A values \in {ReadBack(path)} :
                  \A n \in DOMAIN values : ~ RatLess(One, RatAbs(values[n]))
            /\ \E path \in VfPaths : \E values \in {ReadBack(path)} :
                  \E n \in DOMAIN values : RatAbs(values[n]) = One

\* a normalised run has written three files, one of which stays below 1 in
\* magnitude everywhere: its own largest magnitude was not the divisor
C12_Witness ==
    /\ VfPaths # {} /\ Normalised /\ JointMax = <<17, 1>>
    /\ Cardinality(VfPaths) = 3
    /\ \E path \in VfPaths : \A n \in DOMAIN ReadBack(path) :
          RatLess(RatAbs(ReadBack(path)[n]), One)

\* C13: when a normalised export of a field whose components are all zero
\* has written its files, every value read back from them is zero.
C13_ZeroStaysZero ==
    (VfPaths # {} /\ Normalised /\ JointMax[1] = 0) =>
        \A path \in VfPaths : \A values \in {ReadBack(path)} :
            \A n \in DOMAIN values : values[n] = <<0, 1>>

\* C14: a run that ends with the error of components that differ in
\* shape has opened no file for writing: no mesh, no vector file and no
\* manifest.
C14_ShapeErrorWritesNothing ==
    export_raised \in {"ValueError: stack", "ValueError: shape"} => opened = <<>>

-----------------------------------------------------------------------------
(* Properties of the isosurface export and of the manifest                 *)

\* the paths of the meshes on the disk
MeshPaths == { path \in DOMAIN file_system : file_system[path].kind \in {"dae", "obj"} }

\* the last create_files run entered the isosurface stage with the data of
\* a complete input_isosurface_data call
IsoRan ==
    /\ runs > 0
    /\ unity_f.build_iso
    /\ unity_f.iso # EmptyDict
    /\ "var" \in DOMAIN unity_f.iso_dims
    /\ export_raised # "FileNotFoundError"

\* the format asked for, among the spellings explored
RequestedFormat ==
    IF unity_f.iso.file_type \in {<<".", "d", "a", "e">>, <<"d", "a", "e">>} THEN "dae"
    ELSE IF unity_f.iso.file_type = <<"O", "B", "J">> THEN "obj"
    ELSE "other"

RequestedLevels == unity_f.iso.isosurface_levels.values

\* {level}_{variable_name}.{ext}
MeshName(level) ==
    ToString(level) \o "_"
        \o (IF unity_f.iso.var_name = <<>> THEN "NVNP" ELSE unity_f.iso.var_name[1])
        \o "." \o RequestedFormat

\* for the formats dae and obj the meshes on the disk are those of the
\* levels, under their names, and a manifest that was written has under
\* each name an entry with that level
MeshPerLevel ==
    RequestedFormat # "other" =>
        /\ MeshPaths = { "out/" \o MeshName(RequestedLevels[i]) : i \in DOMAIN RequestedLevels }
        /\ \A i \in DOMAIN RequestedLevels :
              file_system["out/" \o MeshName(RequestedLevels[i])].level = RequestedLevels[i]
        /\ "out/meta.json" \in DOMAIN file_system =>
              /\ FileEntries(Manifest["isosurface"])
                    = { MeshName(RequestedLevels[i]) : i \in DOMAIN RequestedLevels }
              /\ \A i \in DOMAIN RequestedLevels :
                    Manifest["isosurface"][MeshName(RequestedLevels[i])].isosurface_level
                        = ToString(RequestedLevels[i])

\* C15 as stated: one mesh per level under its name with its manifest
\* entry for dae and obj, and an error for any other format.
C15_MeshPerLevelOrError ==
    IsoRan =>
        /\ MeshPerLevel
        /\ RequestedFormat = "other" =>
              export_raised = "ValueError: file type" /\ MeshPaths = {}

\* C15 amended: the error for another format is raised when at least one
\* level is asked for; with no level the stage writes nothing and does not
\* fail.
C15_MeshPerLevelOrErrorAtFirstLevel ==
    IsoRan =>
        /\ MeshPerLevel
        /\ (RequestedFormat = "other" /\ RequestedLevels # <<>>) =>
              export_raised = "ValueError: file type" /\ MeshPaths = {}
        /\ (RequestedFormat = "other" /\ RequestedLevels = <<>>) =>
              export_raised # "ValueError: file type" /\ MeshPaths = {}

\* a run has written the two meshes of a ".dae" request and its manifest
C15_Witness ==
    /\ IsoRan
    /\ unity_f.iso.file_type = <<".", "d", "a", "e">>
    /\ Cardinality(MeshPaths) = 2
    /\ "out/meta.json" \in DOMAIN file_system

\* the three flags of the object follow the calls: a flag changes only in
\* a step of its own call (or of create_file, which makes the calls on an
\* object of its own), input calls turn theirs on, remove_radar turns the
\* radar flag off
FlagsFollowCalls ==
    /\ (unity_f'.build_iso \/ ~ InputIsosurfaceData)
    /\ (unity_f'.build_iso = unity_f.build_iso \/ InputIsosurfaceData \/ CreateFile)
    /\ (unity_f'.build_vector \/ ~ InputVectorData)
    /\ (unity_f'.build_vector = unity_f.build_vector \/ InputVectorData \/ CreateFile)
    /\ (unity_f'.radar \/ ~ InitRadarMeta)
    /\ (~ unity_f'.radar \/ ~ RemoveRadar)
    /\ (unity_f'.radar = unity_f.radar \/ InitRadarMeta \/ RemoveRadar \/ CreateFile)
    /\ (create_file_call' # create_file_call) =>
          /\ unity_f'.build_iso
          /\ unity_f'.build_vector = create_file_call'.velocity

\* the manifest written by this step has FILE_GENERATED and one section for
\* each flag that is on
ManifestFollowsFlags ==
    (runs' = runs + 1 /\ export_raised' = "none") =>
        /\ opened'[Len(opened')] = "out/meta.json"
        /\ \A manifest \in {file_system'["out/meta.json"].meta} :
              /\ "FILE_GENERATED" \in DOMAIN manifest
              /\ "isosurface" \in DOMAIN manifest <=> unity_f'.build_iso
              /\ "vector_field" \in DOMAIN manifest <=> unity_f'.build_vector
              /\ "radar" \in DOMAIN manifest <=> unity_f'.radar
              /\ DOMAIN manifest
                    \subseteq {"FILE_GENERATED", "isosurface", "vector_field", "radar"}

\* C16: in every step, the flags of the object record which of the input
\* calls were made (radar: init_radar not followed by remove_radar), and a
\* create_files call that writes the manifest puts in it FILE_GENERATED,
\* isosurface exactly when isosurface data was input, vector_field exactly
\* when vector data was input, and radar exactly when the radar is on.
C16_ManifestSections == [][FlagsFollowCalls /\ ManifestFollowsFlags]_vars

\* a manifest with the isosurface and radar sections and no vector section
C16_Witness ==
    /\ save_call = NoCall
    /\ "out/meta.json" \in DOMAIN file_system
    /\ DOMAIN Manifest = {"FILE_GENERATED", "isosurface", "radar"}
    /\ ~ unity_f.build_vector

\* the grid kind a section must show for the x coordinate stored for it
GridOf(dims) == IF dims["x"].units = "degree" THEN "latlon" ELSE "cartesian"

\* C17: in a written manifest, the grid field of the isosurface section is
\* latlon exactly when the x coordinate given to input_isosurface_data is in
\* degrees, and the grid field of the vector_field section is latlon exactly
\* when the x coordinate given to input_vector_data is in degrees.
C17_GridPerSection ==
    (save_call = NoCall /\ "out/meta.json" \in DOMAIN file_system) =>
        /\ "isosurface" \in DOMAIN Manifest =>
              Manifest["isosurface"]["grid"] = GridOf(unity_f.iso_dims)
        /\ "vector_field" \in DOMAIN Manifest =>
              Manifest["vector_field"]["grid"] = GridOf(unity_f.vector_dims)

\* C18: when create_file runs on an object whose 4-character site is not in
\* the site table, init_radar raises the unknown-site error and nothing is
\* written: no mesh, no .vf file and no meta.json.
C18_UnknownSiteWritesNothing ==
    (create_file_call # NoCreateFile
        /\ Join(create_file_call.radar) \notin DOMAIN SiteTable) =>
        /\ export_raised = "ValueError: site"
        /\ file_system = EmptyDict
        /\ opened = <<>>

\* create_file was called with winds for a site the table does not have
C18_Witness ==
    /\ create_file_call = [radar |-> <<"K", "X", "Y", "Q">>, velocity |-> TRUE]
    /\ unity_f.build_iso /\ unity_f.build_vector /\ unity_f.radar
    /\ export_raised = "ValueError: site"

-----------------------------------------------------------------------------
(* Properties of repeated runs                                             *)

FilesOfKind(disk, kinds) == { path \in DOMAIN disk : disk[path].kind \in kinds }

\* the files of the kinds are the same files with the same content
SameFiles(before, after, kinds) ==
    /\ FilesOfKind(after, kinds) = FilesOfKind(before, kinds)
    /\ \A path \in FilesOfKind(before, kinds) : after[path] = before[path]

WithoutStamp(manifest) == [k \in DOMAIN manifest \ {"FILE_GENERATED"} |-> manifest[k]]

SameManifest(before, after) ==
    WithoutStamp(after["out/meta.json"].meta) = WithoutStamp(before["out/meta.json"].meta)

\* what mcubes.smooth can give for the isosurface data of the object
SmoothOutcomes(self) ==
    IF self.build_iso /\ "var" \in DOMAIN self.iso_dims /\ self.iso # EmptyDict /\ self.iso.smooth
    THEN McSmooth(SwapAxes(self.iso_dims["var"].data))
    ELSE {Flat}

\* this step is the second run on the object, and both runs ended well
SecondRun == runs = 1 /\ runs' = 2 /\ export_raised = "none" /\ export_raised' = "none"

\* this step is the first run on the object and ended well
FirstRun ==
    runs = 0 /\ runs' = 1 /\ export_raised' = "none" /\ create_file_call' = NoCreateFile

\* the run a second object makes a second later, after the same input
\* calls: it has the fields unity_f had before the first run
RunOfTwin(smoothed) ==
    CreateFilesBody(unity_f, <<"o", "u", "t">>, Directories, EmptyDict, Clock(1), smoothed)

\* C19: a second create_files run with the same inputs, on the same object
\* or on a second object given the same input calls, writes the same .vf
\* files byte for byte and a manifest that differs from the first in nothing
\* but FILE_GENERATED.  mcubes.smooth is taken to return in the second run
\* what it returned in the first: the meshes of the two runs are the same.
C19_SecondRunSameFiles ==
    [][/\ (SecondRun /\ SameFiles(file_system, file_system', {"dae", "obj"})) =>
             /\ SameFiles(file_system, file_system', {"vf"})
             /\ SameManifest(file_system, file_system')
             /\ file_system'["out/meta.json"].meta["FILE_GENERATED"]
                   # file_system["out/meta.json"].meta["FILE_GENERATED"]
       /\ FirstRun =>
             \A smoothed \in SmoothOutcomes(unity_f) :
                \A twin \in {RunOfTwin(smoothed)} :
                   SameFiles(file_system', twin.disk, {"dae", "obj"}) =>
                      /\ twin.error = "none"
                      /\ SameFiles(file_system', twin.disk, {"vf"})
                      /\ SameManifest(file_system', twin.disk)
      ]_vars

\* two runs were made on an object that holds a scalar level and winds, and
\* both ended well
C19_Witness ==
    /\ runs = 2
    /\ export_raised = "none"
    /\ unity_f.build_iso /\ unity_f.build_vector
    /\ Len(unity_f.iso.isosurface_levels.values) = 1
    /\ VfPaths # {}

-----------------------------------------------------------------------------
(* Properties of the units of the vector manifest                          *)

\* C20: after a create_files run that ended well (the field not normalised),
\* the vector_field entry of every vector file reports as vector_units the
\* unit of each stored component whose samples the file holds.
C20_UnitsOfWrittenComponent ==
    (runs > 0 /\ save_call = NoCall /\ export_raised = "none"
        /\ unity_f.build_vector /\ ~ unity_f.vector_normalize) =>
        \A name \in FileEntries(Manifest["vector_field"]) :
            \A key \in DOMAIN unity_f.vector_dims \cap {"U", "V", "W"} :
                HoldsComponent("out/" \o name, key) =>
                    Manifest["vector_field"][name]["vector_units"]
                        = unity_f.vector_dims[key].units

-----------------------------------------------------------------------------
(* Properties of the classification of catalog entries                     *)

NameOf(file) == LastComponent(file)

Skipped(file) == LastChars(NameOf(file), 3) \in {End_MDM, End_tar}

\* the text that must follow {site}%Y%m%d_%H%M%S in the name of an entry
\* that is neither skipped nor unknown
PatternTail(file) ==
    LET name == NameOf(file)
    IN  CASE LastChars(name, 3) = End_V06 -> <<"_", "V", "0", "6">>
          [] LastChars(name, 6) = <<"V", "0", "3", ".", "g", "z">>
                -> <<"_", "V", "0", "3", ".", "g", "z">>
          [] LastChars(name, 6) = <<"V", "0", "6", ".", "g", "z">>
                -> <<"_", "V", "0", "6", ".", "g", "z">>
          [] OTHER -> End_gz

\* the timestamp the pattern of the entry reads from its name
PatternTime(file) == Strptime(NameOf(file), Site, PatternTail(file))

Parsed(file) == ~ Skipped(file) /\ ~ IsUnknown(file)

\* the scan gets to position i: every entry before it is skipped or parses
\* to a time not after the requested time
Visited(c, i) ==
    \A j \in 1..(i - 1) :
        \/ Skipped(c[j])
        \/ (Parsed(c[j]) /\ PatternTime(c[j]) # ParseError /\ PatternTime(c[j]) <= time)

\* C21: the call fails on a name exactly when the scan gets to an entry that
\* does not match the pattern of its class (skipped entries are never
\* parsed), and an entry it returns as the first or the future bound carries
\* the time the pattern of its class reads from its name.
C21_ClassifiedBySuffix ==
    find_pc # "input" =>
        /\ find_result.status = "ValueError"
              <=> \E i \in 1..Len(radar_files) :
                     /\ Visited(radar_files, i)
                     /\ Parsed(radar_files[i])
                     /\ PatternTime(radar_files[i]) = ParseError
        /\ (find_result.status = "returned" /\ find_result.bound \in {"first", "future"}
               /\ ~ Skipped(find_result.file)) =>
              find_result.f_time = PatternTime(find_result.file)

\* a listing with a plain .gz name, a _V03.gz name and a sidecar, of which
\* the _V03.gz entry is returned
C21_Witness ==
    /\ find_pc = "returned"
    /\ Gz_000700 \in Entries(radar_files)
    /\ \E e \in Entries(radar_files) : Skipped(e)
    /\ find_result.file = V03_000800
    /\ find_result.f_time = DateTime(1999, 1, 1, 0, 8, 0)

\* the scan stops at a name that lacks the "_" of the V06 pattern
C21_WitnessMismatch ==
    /\ find_pc = "raised"
    /\ find_result.status = "ValueError"
    /\ Bad_000900 \in Entries(radar_files)

-----------------------------------------------------------------------------
(* Properties of the dtypes the vector export takes                        *)

FloatDtypes == {"float16", "float32", "float64"}

\* save_vector_field got as far as the cast of lines 98-105
SaveReachedCast ==
    /\ save_call # NoCall
    /\ export_raised \notin {"FileNotFoundError", "ValueError: dimensions", "ValueError: shape"}

\* create_files got as far as the cast of lines 554-555, on an object that
\* holds a complete vector input and no isosurface input
VectorReachedCast ==
    /\ runs > 0 /\ save_call = NoCall
    /\ unity_f.build_vector /\ ~ unity_f.build_iso
    /\ "time" \in DOMAIN unity_f.vector_dims
    /\ export_raised \notin {"FileNotFoundError", "ValueError: stack"}

SavedDtypes == { save_call.U.dtype, save_call.V.dtype, save_call.W.dtype }

StoredDtypes ==
    { unity_f.vector_dims[key].data.dtype : key \in DOMAIN unity_f.vector_dims \cap {"U", "V", "W"} }

\* C22: an export that gets to the cast writes its vector files without
\* error when every component is of a floating-point dtype (16, 32 or 64
\* bits), and fails with the dtype error, having written nothing, when a
\* component is of another dtype.
C22_EveryFloatAccepted ==
    /\ SaveReachedCast =>
          IF SavedDtypes \subseteq FloatDtypes
          THEN export_raised = "none" /\ Cardinality(VfPaths) = 3
          ELSE export_raised = "ValueError: dtype" /\ opened = <<>>
    /\ VectorReachedCast =>
          IF StoredDtypes \subseteq FloatDtypes
          THEN export_raised = "none" /\ VfPaths # {}
          ELSE export_raised = "ValueError: dtype" /\ opened = <<>>

-----------------------------------------------------------------------------
(* Properties of the bounds of an isosurface                               *)

\* the positions of the voxels of the array whose value is at least the level
AtOrAbove(data, level) ==
    { n \in 1..Len(data.data) :
         data.data[n][2] > 0 /\ data.data[n][1] >= level * data.data[n][2] }

\* the least / greatest of the coordinate at the positions, as the manifest
\* writes it
LeastAt(coord, positions) ==
    IF positions = {} THEN "N/A"
    ELSE StrFloat(coord.data[CHOOSE n \in positions :
                                \A m \in positions : ~ RatLess(coord.data[m], coord.data[n])])

GreatestAt(coord, positions) ==
    IF positions = {} THEN "N/A"
    ELSE StrFloat(coord.data[CHOOSE n \in positions :
                                \A m \in positions : ~ RatLess(coord.data[n], coord.data[m])])

\* the coordinate the viewer axis shows: x is x, y is the height z, z is y
ViewerCoordinate(axis) ==
    SwapAxes(unity_f.iso_dims[IF axis = "x" THEN "x" ELSE IF axis = "y" THEN "z" ELSE "y"].data)

\* the last run ended well with the isosurface section in its manifest
IsoWritten ==
    /\ IsoRan /\ save_call = NoCall
    /\ export_raised = "none"
    /\ opened # <<>> /\ opened[Len(opened)] = "out/meta.json"

\* C23: for every level of a run that ended well, the mesh and the manifest
\* entry of the level exist, and the entry reports for each viewer axis the
\* least and the greatest coordinate over exactly the voxels of the
\* (transposed, smoothed when asked) data that are at least the level, N/A
\* for both when there is no such voxel.
C23_BoundsOverVoxelsAtLevel ==
    IsoWritten =>
        \A i \in DOMAIN RequestedLevels :
            \A name \in {MeshName(RequestedLevels[i])} :
                /\ "out/" \o name \in MeshPaths
                /\ name \in DOMAIN Manifest["isosurface"]
                /\ \A positions \in {AtOrAbove(file_system["out/" \o name].data, RequestedLevels[i])} :
                      \A entry \in {Manifest["isosurface"][name]} :
                          /\ entry.x_min = LeastAt(ViewerCoordinate("x"), positions)
                          /\ entry.x_max = GreatestAt(ViewerCoordinate("x"), positions)
                          /\ entry.y_min = LeastAt(ViewerCoordinate("y"), positions)
                          /\ entry.y_max = GreatestAt(ViewerCoordinate("y"), positions)
                          /\ entry.z_min = LeastAt(ViewerCoordinate("z"), positions)
                          /\ entry.z_max = GreatestAt(ViewerCoordinate("z"), positions)

\* a run wrote the meshes of level 20, reached by some voxels and not by
\* others, and of level 60, which no voxel reaches
C23_Witness ==
    /\ IsoWritten
    /\ RequestedLevels = <<20, 60>>
    /\ Manifest["isosurface"]["20_reflectivity.dae"].x_min # "N/A"
    /\ Manifest["isosurface"]["60_reflectivity.dae"].x_min = "N/A"
    /\ Manifest["isosurface"]["60_reflectivity.dae"].z_max = "N/A"
    /\ "out/60_reflectivity.dae" \in MeshPaths

-----------------------------------------------------------------------------
(* Properties of the entry and the time returned together                  *)

\* C24: the entry returned carries in its name the time returned with it,
\* whichever bound was taken and however many tar/MDM entries the listing
\* holds.
C24_EntryCarriesReturnedTime ==
    find_pc = "returned" =>
        /\ IsDated(find_result.file)
        /\ EntryTime(find_result.file) = find_result.f_time

\* C25: a call that returns a dated entry less than 15 minutes from the
\* requested time, before or after it, has not warned.
C25_NearIsQuiet ==
    (find_pc = "returned"
        /\ IsDated(find_result.file)
        /\ Abs(EntryTime(find_result.file) - time) < 15 * 60) =>
        ~ find_result.warned

-----------------------------------------------------------------------------
(* Properties of the order in which create_files writes                    *)

\* the last call was a create_files run
AfterRun == runs > 0 /\ save_call = NoCall

\* the paths a run may open below the one directory that exists
PathsOfRun ==
    { "out/" \o name : name \in {"x_vector.vf", "y_vector.vf", "z_vector.vf", "meta.json"} }
    \cup (IF unity_f.build_iso /\ unity_f.iso # EmptyDict
          THEN { "out/" \o MeshName(RequestedLevels[i]) : i \in DOMAIN RequestedLevels }
          ELSE {})

Positions(path) == { n \in DOMAIN opened : opened[n] = path }

\* C26: a create_files run opens files only below the existing directory;
\* a run that ends well has opened meta.json once, as its last file, after
\* every mesh and vector file; a run that fails has not opened meta.json,
\* and a run that fails on the directory has opened nothing.
C26_ManifestLast ==
    AfterRun =>
        /\ \A n \in DOMAIN opened : opened[n] \in PathsOfRun
        /\ export_raised = "none" =>
              /\ Positions("out/meta.json") = {Len(opened)}
              /\ unity_f.build_iso =>
                    \A i \in DOMAIN RequestedLevels :
                        Positions("out/" \o MeshName(RequestedLevels[i])) # {}
              /\ unity_f.build_vector => Positions("out/x_vector.vf") # {}
              /\ \A n \in DOMAIN opened : opened[n] \in DOMAIN file_system
        /\ export_raised # "none" => Positions("out/meta.json") = {}
        /\ export_raised = "FileNotFoundError" => opened = <<>>

\* a run wrote two meshes, three vector files and then the manifest
C26_Witness ==
    /\ AfterRun
    /\ export_raised = "none"
    /\ Len(opened) = 6
    /\ opened[6] = "out/meta.json"

\* a run failed after it had written a mesh, and left no manifest
C26_WitnessFailed ==
    /\ AfterRun
    /\ export_raised \notin {"none", "FileNotFoundError"}
    /\ opened # <<>>
    /\ "out/meta.json" \notin DOMAIN file_system

-----------------------------------------------------------------------------
(* Properties of configuration calls that raise                            *)

\* this step is a call of input_isosurface_data, input_vector_data,
\* init_radar or remove_radar
ConfigurationCall ==
    /\ runs = 0 /\ runs' = 0
    /\ save_call' = NoCall
    /\ create_file_call' = NoCreateFile

\* C27: a configuration call that raises leaves every field of the object
\* as it was before the call.
C27_FailedCallChangesNothing ==
    [][(ConfigurationCall /\ export_raised' # "none") => unity_f' = unity_f]_vars

-----------------------------------------------------------------------------
(* Properties of the attributes of a nexrad_to_unity object                *)

\* C28: the grid extents and resolutions held by an object satisfy the hard
\* invariants after every call, a call that raised included.
C28_StoredGridValid == constructed => ~ HardViolated(grid)

\* C29: the gridded volume an object holds has the selected variable as its
\* field and was made from the selected file, and with velocity on the
\* components were made from the selected file on the stored grid.
C29_HeldDataIsCurrent ==
    constructed =>
        /\ radar_grid.field = variable
        /\ radar_grid.file = radar_file
        /\ velocity => (uvw.file = radar_file /\ uvw.grid = grid)

\* C30: the identifier an object holds is in upper case after construction
\* and after every change_radar call.
C30_StoredIdUpperCase == constructed => radar = Upper(radar)

====
